---- MODULE Spec2Model ----
(***************************************************************************)
(* QScript: the compiler (lexer, parser, branch fix-up), the stepping      *)
(* execution engine with its undo history, and the playground controller   *)
(* that drives them.  Strings of the program are sequences of one-character*)
(* strings, so that the code's character tests can be written as they are. *)
(***************************************************************************)
EXTENDS Integers, Sequences, FiniteSets, TLC

\* ------------------------------------------------------------------------
\* Bounds of the model
\* ------------------------------------------------------------------------
MaxLines == 4
MaxVal == 3
MaxHistory == 11
MaxOutput == 3
MaxStack == 2
MaxTimers == 2
MaxStepOver == 4
MaxMarker == 2
MaxArg == 6
MaxBasis == 3
MaxChars == 4

\* ------------------------------------------------------------------------
\* Program constants
\* ------------------------------------------------------------------------
ID == 1
EXPRESSION == 2
SEPARATOR == 3

MEASURED_VALUE == <<"m","e","a","s","u","r","e","d","_","v","a","l","u","e">>
VARS_PREFIX == <<"w","i","n","d","o","w",".">>
MAIN_NAME == <<"_","_","m","a","i","n","_","_">>

FOR_INIT == "#fi"
FOR_LOOP == "#fl"
FOR_END == "#fe"
EXPRESSION_CMD == "#ex"
IF_CMD == "#if"
ELSE_CMD == "#el"
ENDIF == "#ei"
RETURN == "#rt"
BREAK == "#br"
CommandCode == {FOR_INIT, FOR_LOOP, FOR_END, EXPRESSION_CMD, IF_CMD, ELSE_CMD, ENDIF, RETURN, BREAK}

kw_for == <<"f","o","r">>
kw_endfor == <<"e","n","d","f","o","r">>
kw_if == <<"i","f">>
kw_else == <<"e","l","s","e">>
kw_endif == <<"e","n","d","i","f">>
kw_continue == <<"c","o","n","t","i","n","u","e">>
kw_break == <<"b","r","e","a","k">>
kw_return == <<"r","e","t","u","r","n">>
kw_proc == <<"p","r","o","c">>
kw_endproc == <<"e","n","d","p","r","o","c">>

\* The builtin table: name and number of parameters of each entry, in order.
getBuiltins ==
  << [name |-> <<"V","e","c","t","o","r","S","i","z","e">>, arity |-> 1],
     [name |-> <<"D","e","c","o","h","e","r","e","n","c","e">>, arity |-> 1],
     [name |-> <<"H","a","d","a","m","a","r","d">>, arity |-> 1],
     [name |-> <<"S","i","g","m","a","X">>, arity |-> 1],
     [name |-> <<"S","i","g","m","a","Y">>, arity |-> 1],
     [name |-> <<"S","i","g","m","a","Z">>, arity |-> 1],
     [name |-> <<"U","n","i","t","a","r","y">>, arity |-> 9],
     [name |-> <<"R","x">>, arity |-> 2],
     [name |-> <<"R","y">>, arity |-> 2],
     [name |-> <<"R","z">>, arity |-> 2],
     [name |-> <<"C","N","o","t">>, arity |-> 2],
     [name |-> <<"S","w","a","p">>, arity |-> 2],
     [name |-> <<"T","o","f","f","o","l","i">>, arity |-> 3],
     [name |-> <<"P","h","a","s","e">>, arity |-> 2],
     [name |-> <<"C","P","h","a","s","e">>, arity |-> 3],
     [name |-> <<"Q","F","T","C","P","h","a","s","e">>, arity |-> 2],
     [name |-> <<"I","n","v","Q","F","T","C","P","h","a","s","e">>, arity |-> 2],
     [name |-> <<"Q","F","T">>, arity |-> 2],
     [name |-> <<"I","n","v","Q","F","T">>, arity |-> 2],
     [name |-> <<"E","x","p","M","o","d","N">>, arity |-> 3],
     [name |-> <<"R","e","v","E","x","p","M","o","d","N">>, arity |-> 3],
     [name |-> <<"S","h","i","f","t","L","e","f","t">>, arity |-> 1],
     [name |-> <<"S","h","i","f","t","R","i","g","h","t">>, arity |-> 1],
     [name |-> <<"M","e","a","s","u","r","e","B","i","t">>, arity |-> 1],
     [name |-> <<"M","e","a","s","u","r","e">>, arity |-> 0],
     [name |-> <<"P","r","i","n","t">>, arity |-> 1],
     [name |-> <<"B","r","e","a","k","p","o","i","n","t">>, arity |-> 0],
     [name |-> <<"D","e","l","a","y">>, arity |-> 1],
     [name |-> <<"D","i","s","p","l","a","y">>, arity |-> 1],
     [name |-> <<"S","e","t","V","i","e","w","A","n","g","l","e">>, arity |-> 1],
     [name |-> <<"S","e","t","V","i","e","w","M","o","d","e">>, arity |-> 1] >>

\* Index of the first builtin called `name`, or Len(getBuiltins) + 1: the
\* value of i after the loop `for (i = 0; i < builtins_.length; i++)`.
BuiltinIndex(name) ==
  LET hits == {i \in 1..Len(getBuiltins) : getBuiltins[i].name = name}
  IN IF hits = {} THEN Len(getBuiltins) + 1
     ELSE CHOOSE i \in hits : \A j \in hits : i <= j

\* ------------------------------------------------------------------------
\* Lexer
\* ------------------------------------------------------------------------
Digits == {"0","1","2","3","4","5","6","7","8","9"}
Letters ==
  {"a","b","c","d","e","f","g","h","i","j","k","l","m","n","o","p","q","r","s",
   "t","u","v","w","x","y","z","A","B","C","D","E","F","G","H","I","J","K","L",
   "M","N","O","P","Q","R","S","T","U","V","W","X","Y","Z"}
IdChars == Letters \cup Digits \cup {"_", "."}
Spaces == {" "}

Token(type, str) == [type |-> type, body |-> str]

\* line.indexOf('//'), 1-based; Len(line) + 1 when there is none.
IndexOfComment(line) ==
  LET hits == {i \in 1..(Len(line) - 1) : line[i] = "/" /\ line[i + 1] = "/"}
  IN IF hits = {} THEN Len(line) + 1
     ELSE CHOOSE i \in hits : \A j \in hits : i <= j

\* One iteration of the lexer loop: s = [state, body, tokens], c the character.
tokenizeChar(s, c) ==
  LET emit(ty) == Append(s.tokens, Token(ty, s.body))
  IN
  IF c \in Spaces THEN
    CASE s.state = 0 -> s
      [] s.state = 1 -> [s EXCEPT !.tokens = emit(ID), !.state = 0]
      [] s.state \in {2, 3} -> [s EXCEPT !.tokens = emit(EXPRESSION), !.state = 0]
      [] OTHER -> [s EXCEPT !.body = Append(s.body, c)]
  ELSE IF c \in IdChars THEN
    CASE s.state = 0 ->
           [s EXCEPT !.body = <<c>>, !.state = IF c \notin Digits THEN 1 ELSE 2]
      [] s.state \in {1, 4} -> [s EXCEPT !.body = Append(s.body, c)]
      [] s.state = 2 ->
           IF c \in Digits THEN [s EXCEPT !.body = Append(s.body, c)]
           ELSE [s EXCEPT !.tokens = emit(EXPRESSION), !.body = <<c>>, !.state = 1]
      [] OTHER -> [s EXCEPT !.tokens = emit(EXPRESSION), !.body = <<c>>, !.state = 1]
  ELSE IF c \in {";", ","} THEN
    CASE s.state = 0 ->
           [s EXCEPT !.tokens = Append(s.tokens, Token(SEPARATOR, <<c>>))]
      [] s.state = 1 ->
           [s EXCEPT !.tokens = Append(emit(ID), Token(SEPARATOR, <<c>>)), !.state = 0]
      [] s.state \in {2, 3} ->
           [s EXCEPT !.tokens = Append(emit(EXPRESSION), Token(SEPARATOR, <<c>>)),
                     !.state = 0]
      [] OTHER -> [s EXCEPT !.body = Append(s.body, c)]
  ELSE IF c = "=" THEN
    CASE s.state = 0 -> [s EXCEPT !.body = <<c>>, !.state = 3]
      [] s.state = 1 -> [s EXCEPT !.tokens = emit(ID), !.body = <<c>>, !.state = 3]
      [] s.state = 2 -> [s EXCEPT !.tokens = emit(EXPRESSION), !.body = <<c>>, !.state = 3]
      [] s.state = 3 -> [s EXCEPT !.body = Append(s.body, c), !.state = 2]
      [] OTHER -> [s EXCEPT !.body = Append(s.body, c)]
  ELSE IF c = "\"" THEN
    CASE s.state = 0 -> [s EXCEPT !.body = <<c>>, !.state = 4]
      [] s.state = 1 -> [s EXCEPT !.tokens = emit(ID), !.body = <<c>>, !.state = 4]
      [] s.state \in {2, 3} ->
           [s EXCEPT !.tokens = emit(EXPRESSION), !.body = <<c>>, !.state = 4]
      [] OTHER ->
           [s EXCEPT !.tokens = Append(s.tokens, Token(EXPRESSION, Append(s.body, c))),
                     !.body = Append(s.body, c), !.state = 0]
  ELSE
    CASE s.state = 0 -> [s EXCEPT !.body = <<c>>, !.state = 2]
      [] s.state = 1 -> [s EXCEPT !.tokens = emit(ID), !.body = <<c>>, !.state = 2]
      [] s.state \in {2, 4} -> [s EXCEPT !.body = Append(s.body, c)]
      [] OTHER -> [s EXCEPT !.tokens = emit(EXPRESSION), !.body = <<c>>, !.state = 2]

RECURSIVE tokenizeFrom(_, _, _, _)
tokenizeFrom(line, i, idxCmt, s) ==
  IF i >= idxCmt THEN s
  ELSE tokenizeFrom(line, i + 1, idxCmt, tokenizeChar(s, line[i]))

\* The tokens pushed inside the loop, without the token still being read at
\* the end of the line.
tokenizeUnflushed(line) ==
  tokenizeFrom(line, 1, IndexOfComment(line),
               [state |-> 0, body |-> <<>>, tokens |-> <<>>]).tokens

\* The tokens of one line of script code.
tokenize(line) ==
  LET Flush(s) ==
        CASE s.state = 1 -> Append(s.tokens, Token(ID, s.body))
          [] s.state \in {2, 3, 4} -> Append(s.tokens, Token(EXPRESSION, s.body))
          [] OTHER -> s.tokens
  IN Flush(tokenizeFrom(line, 1, IndexOfComment(line),
                        [state |-> 0, body |-> <<>>, tokens |-> <<>>]))

\* String.prototype.trim on a line.
RECURSIVE trim(_)
trim(l) ==
  IF l = <<>> THEN l
  ELSE IF Head(l) \in Spaces THEN trim(Tail(l))
  ELSE IF l[Len(l)] \in Spaces THEN trim(SubSeq(l, 1, Len(l) - 1))
  ELSE l

\* ------------------------------------------------------------------------
\* Parser / compiler
\* ------------------------------------------------------------------------
\* Number of occurrences of character ch in a token body.
CountChar(body, ch) == Cardinality({j \in 1..Len(body) : body[j] = ch})

RECURSIVE parseFrom(_, _, _, _, _)
parseFrom(tokens, i, exp, expr, parcnt) ==
  IF i >= Len(tokens) THEN Append(exp, expr)
  ELSE IF tokens[i + 1].type = SEPARATOR /\ parcnt = 0
       THEN parseFrom(tokens, i + 1, Append(exp, expr), <<>>, parcnt)
  ELSE parseFrom(tokens, i + 1, exp, Append(expr, tokens[i + 1]),
                 parcnt + CountChar(tokens[i + 1].body, "(")
                        - CountChar(tokens[i + 1].body, ")"))

\* The expressions of tokens[idx..], split at the separators outside
\* parentheses (idx counts from 0, as in the code).
parseExpressions(tokens, idx) == parseFrom(tokens, idx, <<>>, <<>>, 0)

\* A function object.  Objects live in a heap (a sequence); a reference is an
\* index into it and 0 is null.  `locals` keeps the insertion order of the keys.
Func(parent, name, args) ==
  [parent |-> parent, name |-> name, args |-> args, functions |-> <<>>,
   code |-> <<>>, lastLine |-> -1, locals |-> <<>>, localIds |-> <<>>]

\* command is a control code, or "builtin" / "func" with ref the index of the
\* builtin in the table / the reference of the script function.
Opcode(cmd, ref, args, line, target) ==
  [command |-> cmd, ref |-> ref, args |-> args, line |-> line, target |-> target]

\* f.locals.hasOwnProperty(id)
HasLocal(fo, id) == \E k \in 1..Len(fo.locals) : fo.locals[k] = id

\* f.locals[id] = 0
DeclareLocal(fo, id) ==
  IF HasLocal(fo, id) THEN fo ELSE [fo EXCEPT !.locals = Append(@, id)]

\* localIds is the list of keys of locals.
buildLocals(fo) == [fo EXCEPT !.localIds = fo.locals]

\* f.functions.hasOwnProperty(name) and f.functions[name]
HasFunction(fo, name) == \E k \in 1..Len(fo.functions) : fo.functions[k].name = name
GetFunction(fo, name) ==
  LET k == CHOOSE k \in 1..Len(fo.functions) : fo.functions[k].name = name
  IN fo.functions[k].fn
\* f.functions[name] = fn
SetFunction(fo, name, fn) ==
  IF HasFunction(fo, name)
  THEN [fo EXCEPT !.functions =
          [k \in 1..Len(@) |-> IF @[k].name = name THEN [name |-> name, fn |-> fn]
                               ELSE @[k]]]
  ELSE [fo EXCEPT !.functions = Append(@, [name |-> name, fn |-> fn])]

\* Walks up the scope tree for the function called name; 0 when not found.
RECURSIVE findFunction(_, _, _)
findFunction(funcs, fn, name) ==
  IF fn = 0 THEN 0
  ELSE IF HasFunction(funcs[fn], name) THEN GetFunction(funcs[fn], name)
  ELSE findFunction(funcs, funcs[fn].parent, name)

Error(msg, n) == [msg |-> msg, arg |-> n]

\* The activation of compileFunction for function f: its fix-up stacks.
Frame(f) == [f |-> f, forStack |-> <<>>, ifStack |-> <<>>]

\* code[j].target = v, with j counted from 0.
SetTarget(code, j, v) == [code EXCEPT ![j + 1].target = v]

Top(stack) == stack[Len(stack)]
Pop(stack) == SubSeq(stack, 1, Len(stack) - 1)

\* The first character of a token body is one of = + - * / & | ^
StartsExpression(body) ==
  body # <<>> /\ body[1] \in {"=", "+", "-", "*", "/", "&", "|", "^"}

\* The function being compiled by the innermost activation, and its code.
CurF(c) == Top(c.frames).f
CurCode(c) == c.funcs[CurF(c)].code

\* f.code.push(op)
Emit(c, op) == [c EXCEPT !.funcs[CurF(c)].code = Append(@, op)]
\* this.errors.push(msg + line)
Err(c, msg, line) == [c EXCEPT !.errors = Append(@, Error(msg, line))]

\* `endfor` that fixes up the FOR_INIT of the loop and leaves its FOR_LOOP.
compileEndforInitOnly(c, line) ==
  LET fr == Top(c.frames)  n == Len(CurCode(c))
  IN IF fr.forStack = <<>>
     THEN Err(c, "\"endfor\" without matching \"for\" in line ", line)
     ELSE LET j == Top(fr.forStack)
              c2 == [c EXCEPT !.frames[Len(c.frames)].forStack = Pop(@),
                              !.funcs[CurF(c)].code = SetTarget(@, j, n)]
          IN Emit(c2, Opcode(FOR_END, 0, <<>>, line, j + 1))

\* `endfor`: close the innermost open loop and emit FOR_END.
compileEndfor(c, line) ==
  LET fr == Top(c.frames)  n == Len(CurCode(c))
  IN IF fr.forStack = <<>>
     THEN Err(c, "\"endfor\" without matching \"for\" in line ", line)
     ELSE LET j == Top(fr.forStack)
              c2 == [c EXCEPT !.frames[Len(c.frames)].forStack = Pop(@),
                              !.funcs[CurF(c)].code =
                                 SetTarget(SetTarget(@, j, n), j + 1, n)]
          IN Emit(c2, Opcode(FOR_END, 0, <<>>, line, j + 1))

\* `else` that says nothing when no `if` is open.
compileElseSilent(c, line) ==
  LET fr == Top(c.frames)  n == Len(CurCode(c))
  IN IF fr.ifStack = <<>> THEN c
     ELSE LET j == Top(fr.ifStack)
              c2 == [c EXCEPT !.frames[Len(c.frames)].ifStack = Append(Pop(@), n),
                              !.funcs[CurF(c)].code = SetTarget(@, j, n)]
          IN Emit(c2, Opcode(ELSE_CMD, 0, <<>>, line, j + 1))

\* `else`: close the IF at this index and wait for `endif`.
compileElse(c, line) ==
  LET fr == Top(c.frames)  n == Len(CurCode(c))
  IN IF fr.ifStack = <<>>
     THEN Err(c, "\"else\" without matching \"if\" in line ", line)
     ELSE LET j == Top(fr.ifStack)
              c2 == [c EXCEPT !.frames[Len(c.frames)].ifStack = Append(Pop(@), n),
                              !.funcs[CurF(c)].code = SetTarget(@, j, n)]
          IN Emit(c2, Opcode(ELSE_CMD, 0, <<>>, line, j + 1))

\* `endif`: close the pending IF or ELSE.
compileEndif(c, line) ==
  LET fr == Top(c.frames)  n == Len(CurCode(c))
  IN IF fr.ifStack = <<>>
     THEN Err(c, "\"endif\" without matching \"if\" in line ", line)
     ELSE LET j == Top(fr.ifStack)
              c2 == [c EXCEPT !.frames[Len(c.frames)].ifStack = Pop(@),
                              !.funcs[CurF(c)].code = SetTarget(@, j, n)]
          IN Emit(c2, Opcode(ENDIF, 0, <<>>, line, j + 1))

\* `continue`: a FOR_END that re-enters the innermost open loop.
compileContinue(c, line) ==
  LET fr == Top(c.frames)
  IN IF fr.forStack = <<>>
     THEN Err(c, "\"continue\" without matching \"for\" in line ", line)
     ELSE Emit(c, Opcode(FOR_END, 0, <<>>, line, Top(fr.forStack) + 1))

\* `break` that targets the outermost open loop.
compileBreakOutermost(c, line) ==
  LET fr == Top(c.frames)
  IN IF fr.forStack = <<>>
     THEN Err(c, "\"break\" without matching \"for\" in line ", line)
     ELSE Emit(c, Opcode(BREAK, 0, <<>>, line, fr.forStack[1] + 1))

\* `break`
compileBreak(c, line) ==
  LET fr == Top(c.frames)
  IN IF fr.forStack = <<>>
     THEN Err(c, "\"break\" without matching \"for\" in line ", line)
     ELSE Emit(c, Opcode(BREAK, 0, <<>>, line, Top(fr.forStack) + 1))

\* Return of one activation of compileFunction to its caller: the `proc`
\* branch of the caller stores the function and moves its line cursor.
compileReturn(c, lastLine) ==
  LET Ret(f, fo, c2) ==
        IF c2.frames = <<>> THEN [c2 EXCEPT !.main = f]
        ELSE [c2 EXCEPT !.funcs[CurF(c2)] = SetFunction(@, fo.name, f),
                        !.line = lastLine + 1]
  IN Ret(CurF(c), buildLocals([c.funcs[CurF(c)] EXCEPT !.lastLine = lastLine]),
         [c EXCEPT !.funcs[CurF(c)] = buildLocals([@ EXCEPT !.lastLine = lastLine]),
                   !.frames = Pop(@)])

\* Call of compileFunction(parent, fn, args, line): a new function object and
\* a new activation.
compileCall(c, fn, args) ==
  [c EXCEPT !.funcs = Append(@, Func(IF c.frames = <<>> THEN 0 ELSE CurF(c), fn, args)),
            !.frames = Append(@, Frame(Len(c.funcs) + 1))]

\* A line that is a builtin name: the arity check and the call opcode.
compileBuiltin(c, i, e, line) ==
  IF getBuiltins[i].arity # Len(e)
  THEN Err(c, "Wrong number of arguments in line ", line)
  ELSE Emit(c, Opcode("builtin", i, e, line, -1))

\* `for`
compileFor(c, t, line) ==
  LET n == Len(CurCode(c))
      Gen(e) ==
        IF Len(e) # 3 /\ Len(e) # 4 THEN Err(c, "Syntax error in line ", line)
        ELSE IF Len(e) = 3
        THEN Emit(Emit([c EXCEPT !.frames[Len(c.frames)].forStack = Append(@, n)],
                       Opcode(FOR_INIT, 0, <<e[1], e[2]>>, line, -1)),
                  Opcode(FOR_LOOP, 0, <<e[2], e[3]>>, line, -1))
        ELSE Emit(Emit(c, Opcode(FOR_INIT, 0, <<e[1], e[2], e[4]>>, line, -1)),
                  Opcode(FOR_LOOP, 0, <<e[2], e[3], e[4]>>, line, -1))
  IN Gen(parseExpressions(t, 1))

\* `if`
compileIf(c, t, line) ==
  LET n == Len(CurCode(c))
      Gen(e) ==
        IF Len(e) # 1 /\ Len(e) # 2 THEN Err(c, "Syntax error in line ", line)
        ELSE IF Len(e) = 1
        THEN Emit([c EXCEPT !.frames[Len(c.frames)].ifStack = Append(@, n)],
                  Opcode(IF_CMD, 0, <<e[1]>>, line, -1))
        ELSE Emit(c, Opcode(IF_CMD, 0, <<e[1], e[2]>>, line, -1))
  IN Gen(parseExpressions(t, 1))

\* The parameter names of a `proc` line and the errors of the malformed ones.
RECURSIVE procArgs(_, _, _, _)
procArgs(c, e, i, line) ==
  IF i > Len(e) THEN [c |-> c, a |-> <<>>]
  ELSE IF Len(e[i]) # 1
       THEN procArgs(Err(c, "Syntax error in line ", line), e, i + 1, line)
  ELSE LET Cons(r) == [c |-> r.c, a |-> <<e[i][1].body>> \o r.a]
       IN Cons(procArgs(c, e, i + 1, line))

\* `proc`
compileProc(c, t, line) ==
  IF t[2].type # ID THEN Err(c, "Syntax error in line ", line)
  ELSE IF Len(t) = 2 THEN compileCall(c, t[2].body, <<>>)
  ELSE LET Call(r) == compileCall(r.c, t[2].body, r.a)
       IN Call(procArgs(c, parseExpressions(t, 2), 1, line))

\* A line of two tokens or more.
compileMulti(c, t, line) ==
  IF Len(t) < 2 THEN Err(c, "Syntax error in line ", line)
  ELSE IF t[1].type # ID THEN c
  ELSE IF t[1].body = kw_for THEN compileFor(c, t, line)
  ELSE IF t[1].body = kw_if THEN compileIf(c, t, line)
  ELSE IF t[1].body = kw_proc THEN compileProc(c, t, line)
  ELSE LET Gen(i, fc) ==
             IF i # Len(getBuiltins) + 1
             THEN compileBuiltin(c, i, parseExpressions(t, 1), line)
             ELSE IF StartsExpression(t[2].body)
                  THEN Emit(c, Opcode(EXPRESSION_CMD, 0, <<t>>, line, -1))
             ELSE IF fc # 0 THEN Emit(c, Opcode("func", fc, parseExpressions(t, 1), line, -1))
             ELSE Err(c, "Unknown command in line ", line)
       IN Gen(BuiltinIndex(t[1].body), findFunction(c.funcs, CurF(c), t[1].body))

\* A line of one identifier: the keywords, a builtin or a script function
\* without arguments.
compileSingle(c, t, line) ==
  LET Gen(w, i, fc) ==
        CASE w = kw_endfor -> compileEndfor(c, line)
          [] w = kw_else -> compileElse(c, line)
          [] w = kw_endif -> compileEndif(c, line)
          [] w = kw_continue -> compileContinue(c, line)
          [] w = kw_break -> compileBreak(c, line)
          [] w = kw_return -> Emit(c, Opcode(RETURN, 0, <<>>, line, -1))
          [] w = kw_endproc -> compileReturn(c, line - 1)
          [] OTHER ->
               IF i # Len(getBuiltins) + 1 THEN compileBuiltin(c, i, <<>>, line)
               ELSE IF fc # 0 THEN Emit(c, Opcode("func", fc, <<>>, line, -1))
               ELSE compileMulti(c, t, line)
  IN Gen(t[1].body, BuiltinIndex(t[1].body), findFunction(c.funcs, CurF(c), t[1].body))

\* One iteration of the loop of the innermost compileFunction activation, or
\* its return when the lines are exhausted.
compileLine(c) ==
  IF c.line >= Len(c.text) THEN compileReturn(c, c.line - 1)
  ELSE LET Gen(l, line, c1, t) ==
             IF Len(l) = 0 \/ (Len(l) >= 2 /\ l[1] = "/" /\ l[2] = "/") THEN c1
             ELSE IF Len(t) = 1 /\ t[1].type = ID THEN compileSingle(c1, t, line)
             ELSE compileMulti(c1, t, line)
       IN Gen(trim(c.text[c.line + 1]), c.line + 1, [c EXCEPT !.line = c.line + 1],
              tokenize(trim(c.text[c.line + 1])))

RECURSIVE compileLoop(_)
compileLoop(c) == IF c.frames = <<>> THEN c ELSE compileLoop(compileLine(c))

\* compileFunction(null, '__main__', [], 0) on the lines of the script: the
\* heap of function objects, the reference of __main__ and the errors.
compileFunction(text, errors) ==
  compileLoop(compileCall([text |-> text, funcs |-> <<>>, errors |-> errors,
                           frames |-> <<>>, line |-> 0, main |-> 0],
                          MAIN_NAME, <<>>))

\* ------------------------------------------------------------------------
\* The expression evaluator eval_: JavaScript values, and the evaluation of
\* the expression strings the engine builds, against the global object
\* `window` (a function from property names to values).
\* ------------------------------------------------------------------------
Num(n) == [t |-> "number", n |-> n, s |-> <<>>]
Str(s) == [t |-> "string", n |-> 0, s |-> s]
Bool(b) == [t |-> "boolean", n |-> IF b THEN 1 ELSE 0, s |-> <<>>]
Undefined == [t |-> "undefined", n |-> 0, s |-> <<>>]
NaN == [t |-> "NaN", n |-> 0, s |-> <<>>]

DigitChar(d) ==
  CASE d = 0 -> "0" [] d = 1 -> "1" [] d = 2 -> "2" [] d = 3 -> "3" [] d = 4 -> "4"
    [] d = 5 -> "5" [] d = 6 -> "6" [] d = 7 -> "7" [] d = 8 -> "8" [] OTHER -> "9"
DigitVal(c) ==
  CASE c = "0" -> 0 [] c = "1" -> 1 [] c = "2" -> 2 [] c = "3" -> 3 [] c = "4" -> 4
    [] c = "5" -> 5 [] c = "6" -> 6 [] c = "7" -> 7 [] c = "8" -> 8 [] OTHER -> 9

RECURSIVE DecChars(_)
DecChars(n) ==
  IF n < 0 THEN <<"-">> \o DecChars(-n)
  ELSE IF n < 10 THEN <<DigitChar(n)>>
  ELSE Append(DecChars(n \div 10), DigitChar(n % 10))

RECURSIVE DecVal(_)
DecVal(cs) ==
  IF cs = <<>> THEN 0 ELSE 10 * DecVal(SubSeq(cs, 1, Len(cs) - 1)) + DigitVal(cs[Len(cs)])

\* value.toString() / the string a value becomes in a concatenation
toString(v) ==
  CASE v.t = "number" -> DecChars(v.n)
    [] v.t = "string" -> v.s
    [] v.t = "boolean" -> IF v.n = 1 THEN <<"t","r","u","e">> ELSE <<"f","a","l","s","e">>
    [] v.t = "NaN" -> <<"N","a","N">>
    [] OTHER -> <<"u","n","d","e","f","i","n","e","d">>

\* Truthiness of a value in a condition.
Truthy(v) ==
  CASE v.t = "number" -> v.n # 0
    [] v.t = "string" -> v.s # <<>>
    [] v.t = "boolean" -> v.n = 1
    [] OTHER -> FALSE

\* ToNumber, for the values of the model (a string is not numeric here).
ToNumber(v) == IF v.t \in {"number", "boolean"} THEN Num(v.n) ELSE NaN

JsOps2 == {<<"=","=">>, <<"+","+">>, <<"<","=">>, <<"!","=">>}
JsOps1 == {"=", "+", "-", "*", "<", ">", "(", ")", "!"}

\* The JavaScript tokens of an expression string.
RECURSIVE jsLex(_, _)
jsLex(cs, i) ==
  IF i > Len(cs) THEN <<>>
  ELSE LET \* end of the run of characters of class S starting at i
           runEnd(S) == CHOOSE j \in i..Len(cs) :
                          /\ \A k \in i..j : cs[k] \in S
                          /\ (j = Len(cs) \/ cs[j + 1] \notin S)
           Run(kind, e) == <<[k |-> kind, s |-> SubSeq(cs, i, e)]>> \o jsLex(cs, e + 1)
           String(closing) ==
             IF closing = {} THEN <<[k |-> "bad", s |-> <<cs[i]>>]>>
             ELSE Run("str", CHOOSE j \in closing : \A m \in closing : j <= m)
       IN IF cs[i] \in Spaces THEN jsLex(cs, i + 1)
          ELSE IF cs[i] \in Digits THEN Run("num", runEnd(Digits))
          ELSE IF cs[i] \in IdChars \ {"."} THEN Run("name", runEnd(IdChars))
          ELSE IF cs[i] = "\"" THEN String({j \in (i + 1)..Len(cs) : cs[j] = "\""})
          ELSE IF i < Len(cs) /\ <<cs[i], cs[i + 1]>> \in JsOps2
          THEN <<[k |-> "op", s |-> <<cs[i], cs[i + 1]>>]>> \o jsLex(cs, i + 2)
          ELSE IF cs[i] \in JsOps1 THEN <<[k |-> "op", s |-> <<cs[i]>>]>> \o jsLex(cs, i + 1)
          ELSE <<[k |-> "bad", s |-> <<cs[i]>>]>>

IsPrefix(p, cs) == Len(cs) >= Len(p) /\ SubSeq(cs, 1, Len(p)) = p
HasDot(id) == \E k \in 1..Len(id) : id[k] = "."

\* The property of the global object a name denotes: window.x and x are the
\* same property; <<>> when the name is no such reference.
PropertyOf(name) ==
  IF IsPrefix(VARS_PREFIX, name)
  THEN (IF HasDot(SubSeq(name, Len(VARS_PREFIX) + 1, Len(name))) THEN <<>>
        ELSE SubSeq(name, Len(VARS_PREFIX) + 1, Len(name)))
  ELSE IF HasDot(name) THEN <<>> ELSE name

Get(window, prop) == IF prop \in DOMAIN window THEN window[prop] ELSE Undefined
Put(window, prop, v) ==
  [p \in DOMAIN window \cup {prop} |-> IF p = prop THEN v ELSE window[p]]

Result(ok, v, window) == [ok |-> ok, v |-> v, window |-> window]
Thrown(window) == Result(FALSE, Undefined, window)

\* A primary expression: a literal or a variable read.
jsAtom(tok, window) ==
  CASE tok.k = "num" -> Result(TRUE, Num(DecVal(tok.s)), window)
    [] tok.k = "str" -> Result(TRUE, Str(tok.s), window)
    [] tok.k = "name" ->
         CASE tok.s = <<"t","r","u","e">> -> Result(TRUE, Bool(TRUE), window)
           [] tok.s = <<"f","a","l","s","e">> -> Result(TRUE, Bool(FALSE), window)
           [] tok.s = <<"u","n","d","e","f","i","n","e","d">> -> Result(TRUE, Undefined, window)
           [] tok.s = <<"N","a","N">> -> Result(TRUE, NaN, window)
           [] OTHER ->
                LET Read(p) ==
                      IF p = <<>> THEN Thrown(window)
                      \* a bare name that is not defined is a ReferenceError
                      ELSE IF ~IsPrefix(VARS_PREFIX, tok.s) /\ p \notin DOMAIN window
                           THEN Thrown(window)
                      ELSE Result(TRUE, Get(window, p), window)
                IN Read(PropertyOf(tok.s))
    [] OTHER -> Thrown(window)

\* a op b on values
jsBinary(op, a, b) ==
  LET Apply(x, y, nums) ==
        CASE op = <<"+">> ->
               IF a.t = "string" \/ b.t = "string" THEN Str(toString(a) \o toString(b))
               ELSE IF nums THEN Num(x.n + y.n) ELSE NaN
          [] op = <<"-">> -> IF nums THEN Num(x.n - y.n) ELSE NaN
          [] op = <<"*">> -> IF nums THEN Num(x.n * y.n) ELSE NaN
          [] op = <<"<">> -> Bool(nums /\ x.n < y.n)
          [] op = <<">">> -> Bool(nums /\ x.n > y.n)
          [] op = <<"<","=">> -> Bool(nums /\ x.n <= y.n)
          [] op = <<"=","=">> ->
               IF a.t = "string" /\ b.t = "string" THEN Bool(a.s = b.s)
               ELSE IF a.t = "undefined" \/ b.t = "undefined" THEN Bool(a.t = b.t)
               ELSE Bool(nums /\ x.n = y.n)
          [] OTHER ->
               IF a.t = "string" /\ b.t = "string" THEN Bool(a.s # b.s)
               ELSE IF a.t = "undefined" \/ b.t = "undefined" THEN Bool(a.t # b.t)
               ELSE Bool(~(nums /\ x.n = y.n))
  IN Apply(ToNumber(a), ToNumber(b), ToNumber(a).t = "number" /\ ToNumber(b).t = "number")

JsBinaryOps == {<<"+">>, <<"-">>, <<"*">>, <<"<">>, <<">">>, <<"<","=">>, <<"=","=">>,
                <<"!","=">>}

\* Evaluation of a token list: an assignment chain over `a`, `a op b` or `x++`.
\* Anything else is a syntax error of the model's expression language.
RECURSIVE jsEval(_, _)
jsEval(toks, window) ==
  IF toks = <<>> THEN Result(TRUE, Undefined, window)
  ELSE IF \E k \in 1..Len(toks) : toks[k].k = "bad" THEN Thrown(window)
  ELSE IF Len(toks) >= 2 /\ toks[1].k = "name" /\ toks[2] = [k |-> "op", s |-> <<"=">>]
  THEN LET Assign(p, r) ==
             IF Len(toks) = 2 \/ p = <<>> \/ ~r.ok THEN Thrown(window)
             ELSE Result(TRUE, r.v, Put(r.window, p, r.v))
       IN Assign(PropertyOf(toks[1].s), jsEval(SubSeq(toks, 3, Len(toks)), window))
  ELSE IF Len(toks) = 1 THEN jsAtom(toks[1], window)
  ELSE IF Len(toks) = 2 /\ toks[1].k = "name" /\ toks[2] = [k |-> "op", s |-> <<"+","+">>]
  THEN LET Incr(a) ==
             IF ~a.ok THEN Thrown(window)
             ELSE Result(TRUE, ToNumber(a.v),
                         Put(window, PropertyOf(toks[1].s),
                             IF ToNumber(a.v).t = "number" THEN Num(ToNumber(a.v).n + 1)
                             ELSE NaN))
       IN Incr(jsAtom(toks[1], window))
  ELSE IF Len(toks) = 2 /\ toks[1] = [k |-> "op", s |-> <<"-">>] /\ toks[2].k = "num"
  THEN Result(TRUE, Num(-DecVal(toks[2].s)), window)
  ELSE IF Len(toks) = 3 /\ toks[2].k = "op" /\ toks[2].s \in JsBinaryOps
  THEN LET Binary(a, b) ==
             IF ~a.ok \/ ~b.ok THEN Thrown(window)
             ELSE Result(TRUE, jsBinary(toks[2].s, a.v, b.v), window)
       IN Binary(jsAtom(toks[1], window), jsAtom(toks[3], window))
  ELSE Thrown(window)

\* this.eval_(code): the result, or a thrown exception (ok = FALSE).
eval_(code, window) == jsEval(jsLex(code, 1), window)

\* ------------------------------------------------------------------------
\* Execution engine.  The operators below take and return the world w: the
\* QScript object w.compiler_[1], the global object w.window, the controller
\* fields the builtin callback writes, and w.thrown, which records that an
\* exception escaped the call.
\* ------------------------------------------------------------------------
QS(w) == w.compiler_[1]

\* new quantum.QScript(renderer, callback)
QScript ==
  [text_ |-> <<>>, main |-> 0, funcs |-> <<>>, errors |-> <<>>, currentFunc |-> 0,
   currentStep |-> 0, callStack |-> <<>>, simulator |-> <<>>, history_ |-> <<>>,
   savedVars_ |-> <<>>, savedValues_ |-> <<>>, measuredValue |-> Str(<<"u","n","k","n","o","w","n">>),
   vectorSize |-> Num(0)]

StepData(syms, vals, fn, step) ==
  [symbols |-> syms, values |-> vals, func |-> fn, step |-> step]

PushError(w, msg, n) == [w EXCEPT !.compiler_[1].errors = Append(@, Error(msg, n))]

\* compile(script): the lines of the script, compiled; execution at the start.
compile(w, script) ==
  LET Store(c) ==
        [w EXCEPT !.compiler_[1].text_ = script,
                  !.compiler_[1].funcs = c.funcs,
                  !.compiler_[1].errors = c.errors,
                  !.compiler_[1].main = c.main,
                  !.compiler_[1].currentFunc = c.main,
                  !.compiler_[1].currentStep = 0,
                  !.compiler_[1].callStack = <<>>]
  IN Store(compileFunction(script, QS(w).errors))

\* saveValue_(id): remember the value of a variable once per step.  The ids
\* it is given are measured_value and the scoped names window.<cell>, whose
\* evaluation is the read of that property.
saveValue_(w, id) ==
  IF \E k \in 1..Len(QS(w).savedVars_) : QS(w).savedVars_[k] = id THEN w
  ELSE [w EXCEPT !.compiler_[1].savedVars_ = Append(@, id),
                 !.compiler_[1].savedValues_ =
                    Append(@, IF id = MEASURED_VALUE THEN QS(w).measuredValue
                              ELSE Get(w.window, PropertyOf(id)))]

\* The scope of id looked up in fn alone, without its ancestors.
ScopeOwn(funcs, fn, id) ==
  IF fn # 0 /\ HasLocal(funcs[fn], id) THEN fn ELSE 0

\* The function of the scope chain of fn that declares id; 0 when none does.
RECURSIVE ScopeOf(_, _, _)
ScopeOf(funcs, fn, id) ==
  IF fn = 0 THEN 0
  ELSE IF HasLocal(funcs[fn], id) THEN fn
  ELSE ScopeOf(funcs, funcs[fn].parent, id)

\* translateId(fn, id): the scoped name of an identifier, [w, s].
translateId(w, fn, id) ==
  IF HasDot(id) THEN [w |-> w, s |-> id]
  ELSE IF id = MEASURED_VALUE
  THEN [w |-> saveValue_(w, MEASURED_VALUE), s |-> toString(QS(w).measuredValue)]
  ELSE IF id[1] = "_"
  THEN [w |-> saveValue_(w, VARS_PREFIX \o <<"_">> \o id), s |-> VARS_PREFIX \o <<"_">> \o id]
  ELSE LET Scoped(w2, trid) == [w |-> saveValue_(w2, trid), s |-> trid]
           Resolve(found) ==
             IF found = 0
             THEN Scoped([w EXCEPT !.compiler_[1].funcs[fn] = buildLocals(DeclareLocal(@, id))],
                         VARS_PREFIX \o QS(w).funcs[fn].name \o <<"_">> \o id)
             ELSE Scoped(w, VARS_PREFIX \o QS(w).funcs[found].name \o <<"_">> \o id)
       IN Resolve(ScopeOf(QS(w).funcs, fn, id))

\* The loop of executeExpression over the tokens from index i (from 0).
RECURSIVE translateFrom(_, _, _, _)
translateFrom(w, ex, i, expr) ==
  IF i >= Len(ex) THEN [w |-> w, s |-> expr]
  ELSE IF ex[i + 1].type = ID
  THEN LET Next_(r) == translateFrom(r.w, ex, i + 1, expr \o r.s)
           cur == QS(w).currentFunc
       IN Next_(translateId(
                  IF i = 0 /\ Len(ex) > 1 /\ ex[2].body = <<"=">>
                     /\ ~HasLocal(QS(w).funcs[cur], ex[1].body)
                  THEN [w EXCEPT !.compiler_[1].funcs[cur] =
                                    buildLocals(DeclareLocal(@, ex[1].body))]
                  ELSE w,
                  cur, ex[i + 1].body))
  ELSE translateFrom(w, ex, i + 1, expr \o ex[i + 1].body)

\* executeExpression(ex, opt_prefix): [w, v].
executeExpression(w, ex, prefix) ==
  LET Finish(tr, r) ==
        IF r.ok THEN [w |-> [tr.w EXCEPT !.window = r.window], v |-> r.v]
        ELSE [w |-> PushError(tr.w, "JavaScript exception: ", 0), v |-> Num(0)]
      Eval(tr) == Finish(tr, eval_(prefix \o tr.s, tr.w.window))
  IN Eval(translateFrom(w, ex, 0, <<>>))

\* argv[i] = executeExpression(args[i]) for every argument, in order: [w, argv].
RECURSIVE evalArgs(_, _, _)
evalArgs(w, args, i) ==
  IF i > Len(args) THEN [w |-> w, argv |-> <<>>]
  ELSE LET Cons(v, rest) == [w |-> rest.w, argv |-> <<v>> \o rest.argv]
           Rest(r) == IF r.w.thrown THEN [w |-> r.w, argv |-> <<r.v>>]
                      ELSE Cons(r.v, evalArgs(r.w, args, i + 1))
       IN Rest(executeExpression(w, args[i], <<>>))

getCurrentLine(q) ==
  IF q.currentStep >= Len(q.funcs[q.currentFunc].code)
  THEN q.funcs[q.currentFunc].code[Len(q.funcs[q.currentFunc].code)].line - 1
  ELSE q.funcs[q.currentFunc].code[q.currentStep + 1].line - 1

isDone(q) == q.currentStep >= Len(q.funcs[q.currentFunc].code) /\ Len(q.callStack) = 0

isStart(q) == Len(q.history_) = 0

\* ------------------------------------------------------------------------
\* Builtins
\* ------------------------------------------------------------------------
n_VectorSize == <<"V","e","c","t","o","r","S","i","z","e">>
n_Decoherence == <<"D","e","c","o","h","e","r","e","n","c","e">>
n_Hadamard == <<"H","a","d","a","m","a","r","d">>
n_SigmaX == <<"S","i","g","m","a","X">>
n_SigmaY == <<"S","i","g","m","a","Y">>
n_SigmaZ == <<"S","i","g","m","a","Z">>
n_Unitary == <<"U","n","i","t","a","r","y">>
n_Rx == <<"R","x">>
n_Ry == <<"R","y">>
n_Rz == <<"R","z">>
n_CNot == <<"C","N","o","t">>
n_Swap == <<"S","w","a","p">>
n_Toffoli == <<"T","o","f","f","o","l","i">>
n_Phase == <<"P","h","a","s","e">>
n_CPhase == <<"C","P","h","a","s","e">>
n_QFTCPhase == <<"Q","F","T","C","P","h","a","s","e">>
n_InvQFTCPhase == <<"I","n","v","Q","F","T","C","P","h","a","s","e">>
n_QFT == <<"Q","F","T">>
n_InvQFT == <<"I","n","v","Q","F","T">>
n_ExpModN == <<"E","x","p","M","o","d","N">>
n_RevExpModN == <<"R","e","v","E","x","p","M","o","d","N">>
n_ShiftLeft == <<"S","h","i","f","t","L","e","f","t">>
n_ShiftRight == <<"S","h","i","f","t","R","i","g","h","t">>
n_MeasureBit == <<"M","e","a","s","u","r","e","B","i","t">>
n_Measure == <<"M","e","a","s","u","r","e">>
n_Print == <<"P","r","i","n","t">>
n_Breakpoint == <<"B","r","e","a","k","p","o","i","n","t">>
n_Delay == <<"D","e","l","a","y">>
n_Display == <<"D","i","s","p","l","a","y">>
n_SetViewAngle == <<"S","e","t","V","i","e","w","A","n","g","l","e">>
n_SetViewMode == <<"S","e","t","V","i","e","w","M","o","d","e">>

Throw(w) == [w EXCEPT !.thrown = TRUE]

\* typeof v == 'number'
IsNumberType(v) == v.t \in {"number", "NaN"}
\* a < b and a >= b on values, as the comparison operators decide them
JsLess(a, b) == jsBinary(<<"<">>, a, b).n = 1
JsGreaterEq(a, b) ==
  ToNumber(a).t = "number" /\ ToNumber(b).t = "number" /\ ToNumber(a).n >= ToNumber(b).n
JsLessEq(a, b) == jsBinary(<<"<","=">>, a, b).n = 1
\* (v & 1) != 0
JsOdd(v) == ToNumber(v).t = "number" /\ ToNumber(v).n % 2 = 1
\* -v
JsNeg(v) == IF ToNumber(v).t = "number" THEN Num(-ToNumber(v).n) ELSE NaN

\* ------------------------------------------------------------------------
\* The simulator.  The gates of a script whose arguments are whole numbers
\* compute amplitudes in the ring Z[1/2, e^(i pi/32), e^(i/2)].  An amplitude
\* is kept as its image under the ring homomorphism into the field of
\* Modulus elements that sends i, e^(i pi/32), 1/sqrt(2) and e^(i/2) to the
\* residues below: two vectors with different images are different vectors.
\* Indeterminate is an amplitude the ring does not determine: one computed
\* from NaN, from a random or irrational factor, or read outside the vector.
\* ------------------------------------------------------------------------
Modulus == 193
ImagUnit == 112
RootOfUnity64 == 125
InvSqrt2 == 26
ExpHalfRadian == 5
Indeterminate == Modulus

FAdd(a, b) == IF a = Indeterminate \/ b = Indeterminate THEN Indeterminate ELSE (a + b) % Modulus
FMul(a, b) == IF a = Indeterminate \/ b = Indeterminate THEN Indeterminate ELSE (a * b) % Modulus
FNeg(a) == IF a = Indeterminate THEN Indeterminate ELSE (Modulus - a) % Modulus
RECURSIVE FPow(_, _)
FPow(a, k) ==
  IF k = 0 THEN 1
  ELSE LET Sq(h) == IF k % 2 = 0 THEN (h * h) % Modulus ELSE (h * h * a) % Modulus
       IN Sq(FPow(a, k \div 2))
\* a^k of a unit a for any whole k; 1 / a
FUnit(a, k) == FPow(a, k % (Modulus - 1))
FInv(a) == FPow(a, Modulus - 2)
\* A number of a script as an amplitude.
FromNumber(v) == IF ToNumber(v).t = "number" THEN ToNumber(v).n % Modulus ELSE Indeterminate

\* An angle k * pi/32 + m / 2 radians, and the angle of NaN.
Angle(k, m) == [pi32 |-> k, half |-> m, nan |-> FALSE]
NoAngle == [pi32 |-> 0, half |-> 0, nan |-> TRUE]
\* v and v / 2 radians
Radians(v) == IF ToNumber(v).t = "number" THEN Angle(0, 2 * ToNumber(v).n) ELSE NoAngle
HalfRadians(v) == IF ToNumber(v).t = "number" THEN Angle(0, ToNumber(v).n) ELSE NoAngle
\* e^(i a), Math.cos(a), Math.sin(a)
Expi(a) ==
  IF a.nan THEN Indeterminate
  ELSE FMul(FUnit(RootOfUnity64, a.pi32), FUnit(ExpHalfRadian, a.half))
Cos(a) == IF a.nan THEN Indeterminate ELSE FMul(FInv(2), FAdd(Expi(a), FInv(Expi(a))))
Sin(a) ==
  IF a.nan THEN Indeterminate
  ELSE FMul(FInv(FMul(2, ImagUnit)), FAdd(Expi(a), FNeg(FInv(Expi(a)))))

\* 1 << v: the shift count is ToInt32(v) & 31, the result a 32-bit integer.
ShiftCount(v) == IF ToNumber(v).t = "number" THEN ToNumber(v).n % 32 ELSE 0
Shl1(v) == IF ShiftCount(v) = 31 THEN -(2^31) ELSE 2^ShiftCount(v)

\* new quantum.Simulator(renderer, vs), init(): the register in the state
\* |0>, and the renders the last call of the simulator issued.
Simulator(vs) ==
  [size |-> vs,
   state |-> [i \in 0..(Shl1(vs) - 1) |-> IF i = 0 THEN 1 ELSE 0],
   applied |-> <<>>]

\* Bit mask of index i is set; index i with bit mask flipped; the amplitude
\* at index i.
Bit(i, mask) == mask > 0 /\ (i \div mask) % 2 = 1
Flip(i, mask) == IF mask <= 0 THEN i ELSE IF Bit(i, mask) THEN i - mask ELSE i + mask
At(V, i) == IF i \in DOMAIN V THEN V[i] ELSE Indeterminate

\* The entries of the matrix a unitary render is given.
Entry(r, k) == FAdd(r.re[k], FMul(ImagUnit, r.im[k]))

\* What a shader computes from the vector V for the uniforms r.
Shade(r, V) ==
  CASE r.shader = "unitary" ->
         [i \in DOMAIN V |->
            IF Bit(i, r.bitmask)
            THEN FAdd(FMul(Entry(r, 3), At(V, i - r.bitmask)), FMul(Entry(r, 4), V[i]))
            ELSE FAdd(FMul(Entry(r, 1), V[i]), FMul(Entry(r, 2), At(V, i + r.bitmask)))]
    [] r.shader = "sigmax" -> [i \in DOMAIN V |-> At(V, Flip(i, r.bitmask))]
    [] r.shader = "sigmay" ->
         [i \in DOMAIN V |->
            IF Bit(i, r.bitmask) THEN FMul(ImagUnit, At(V, i - r.bitmask))
            ELSE FMul(FNeg(ImagUnit), At(V, i + r.bitmask))]
    [] r.shader = "sigmaz" ->
         [i \in DOMAIN V |-> IF Bit(i, r.bitmask) THEN FNeg(V[i]) ELSE V[i]]
    [] r.shader = "toffoli" ->
         [i \in DOMAIN V |->
            IF Bit(i, r.cbitmask1) /\ Bit(i, r.cbitmask2) THEN At(V, Flip(i, r.bitmask))
            ELSE V[i]]
    [] r.shader = "swap" ->
         [i \in DOMAIN V |->
            IF Bit(i, r.bitmask1) # Bit(i, r.bitmask2)
            THEN At(V, Flip(Flip(i, r.bitmask1), r.bitmask2))
            ELSE V[i]]
    [] r.shader = "cphase" ->
         [i \in DOMAIN V |->
            IF Bit(i, r.cbitmask1) /\ Bit(i, r.cbitmask2) THEN FMul(r.shift, V[i])
            ELSE V[i]]
    [] r.shader = "shiftLeft" ->
         [i \in DOMAIN V |->
            IF r.bitmask2 > 0 /\ i % r.bitmask2 = 0 THEN V[i \div r.bitmask2] ELSE 0]
    [] r.shader = "shiftRight" ->
         [i \in DOMAIN V |->
            IF r.bitmask2 > 0 /\ i * r.bitmask2 < r.vecmask2 THEN At(V, i * r.bitmask2)
            ELSE 0]
    [] r.shader = "collapse" ->
         [i \in DOMAIN V |->
            IF Bit(i, r.bitmask) = (r.value = 1) /\ V[i] # 0 THEN Indeterminate ELSE 0]
    [] OTHER -> [i \in DOMAIN V |-> IF V[i] = 0 THEN 0 ELSE Indeterminate]

\* renderShader(shader): the vector becomes what the shader computes from it.
renderShader(s, r) == [s EXCEPT !.state = Shade(r, s.state), !.applied = Append(@, r)]

renderUnitary(s, bitn, re, im) ==
  renderShader(s, [shader |-> "unitary", bitmask |-> Shl1(bitn), re |-> re, im |-> im])

applyDecoherence(s, strength) == renderShader(s, [shader |-> "decoherence"])

applyHadamard(s, bitn) ==
  renderUnitary(s, bitn, <<InvSqrt2, InvSqrt2, InvSqrt2, FNeg(InvSqrt2)>>, <<0, 0, 0, 0>>)

applyRx(s, bitn, theta) ==
  renderUnitary(s, bitn,
                <<Cos(HalfRadians(theta)), 0, 0, Cos(HalfRadians(theta))>>,
                <<0, Sin(HalfRadians(theta)), Sin(HalfRadians(theta)), 0>>)

applyRy(s, bitn, theta) ==
  renderUnitary(s, bitn,
                <<Cos(HalfRadians(theta)), Sin(HalfRadians(theta)),
                  FNeg(Sin(HalfRadians(theta))), Cos(HalfRadians(theta))>>,
                <<0, 0, 0, 0>>)

applyRz(s, bitn, theta) ==
  renderUnitary(s, bitn,
                <<Cos(HalfRadians(theta)), 0, 0, Cos(HalfRadians(theta))>>,
                <<Sin(HalfRadians(theta)), 0, 0, FNeg(Sin(HalfRadians(theta)))>>)

applySwap(s, bit0, bit1) ==
  renderShader(s, [shader |-> "swap", bitmask1 |-> Shl1(bit0), bitmask2 |-> Shl1(bit1)])

applyToffoli(s, bit0, bit1, bit2) ==
  renderShader(s, [shader |-> "toffoli", bitmask |-> Shl1(bit2),
                   cbitmask1 |-> Shl1(bit0), cbitmask2 |-> Shl1(bit1)])

applyCPhaseShift(s, control, target, angle) ==
  renderShader(s, [shader |-> "cphase", cbitmask1 |-> Shl1(control),
                   cbitmask2 |-> Shl1(target), shift |-> Expi(angle)])

\* phi = inv * Math.PI / (1 << (control - target))
applyPhaseShift(s, control, target, inv) ==
  LET Phi(d) == IF d <= 5 THEN Angle(inv * (32 \div 2^d), 0) ELSE NoAngle
  IN applyCPhaseShift(s, control, target, Phi(ShiftCount(jsBinary(<<"-">>, control, target))))

applyCNot(s, bitc, bitn) == applyToffoli(s, bitc, bitc, bitn)

applySigmaX(s, bitn) == renderShader(s, [shader |-> "sigmax", bitmask |-> Shl1(bitn)])
applySigmaY(s, bitn) == renderShader(s, [shader |-> "sigmay", bitmask |-> Shl1(bitn)])
applySigmaZ(s, bitn) == renderShader(s, [shader |-> "sigmaz", bitmask |-> Shl1(bitn)])

applyShiftLeft(s, nbits) ==
  renderShader(s, [shader |-> "shiftLeft", bitmask2 |-> Shl1(nbits)])
applyShiftRight(s, nbits) ==
  renderShader(s, [shader |-> "shiftRight", bitmask2 |-> Shl1(nbits),
                   vecmask2 |-> Shl1(s.size)])

JsPlus(a, b) == jsBinary(<<"+">>, a, b)

\* applyInvQFT(offset, width) from the loop indices i, j (j = width - 1 at
\* the start of every inner loop).
RECURSIVE applyInvQFTFrom(_, _, _, _, _)
applyInvQFTFrom(s, offset, width, i, j) ==
  IF i < 0 THEN s
  ELSE IF j > i
  THEN applyInvQFTFrom(applyPhaseShift(s, JsPlus(Num(j), offset), JsPlus(Num(i), offset), 1),
                       offset, width, i, j - 1)
  ELSE applyInvQFTFrom(applyHadamard(s, JsPlus(Num(i), offset)), offset, width, i - 1,
                       ToNumber(width).n - 1)
applyInvQFT(s, offset, width) ==
  IF ToNumber(width).t # "number" THEN s
  ELSE applyInvQFTFrom(s, offset, width, ToNumber(width).n - 1, ToNumber(width).n - 1)

\* The loop of applyQFT with the phase shifts of applyInvQFT.
RECURSIVE applyQFTFromPlus(_, _, _, _, _)
applyQFTFromPlus(s, offset, width, i, j) ==
  IF i >= ToNumber(width).n THEN s
  ELSE IF j = i
  THEN applyQFTFromPlus(applyHadamard(s, JsPlus(Num(i), offset)), offset, width, i, i + 1)
  ELSE IF j < ToNumber(width).n
  THEN applyQFTFromPlus(applyPhaseShift(s, JsPlus(Num(j), offset), JsPlus(Num(i), offset), 1),
                        offset, width, i, j + 1)
  ELSE applyQFTFromPlus(s, offset, width, i + 1, i + 1)

\* applyQFT(offset, width) from the loop indices i, j; j = i when the
\* Hadamard of round i is still to come.
RECURSIVE applyQFTFrom(_, _, _, _, _)
applyQFTFrom(s, offset, width, i, j) ==
  IF i >= ToNumber(width).n THEN s
  ELSE IF j = i
  THEN applyQFTFrom(applyHadamard(s, JsPlus(Num(i), offset)), offset, width, i, i + 1)
  ELSE IF j < ToNumber(width).n
  THEN applyQFTFrom(applyPhaseShift(s, JsPlus(Num(j), offset), JsPlus(Num(i), offset), -1),
                    offset, width, i, j + 1)
  ELSE applyQFTFrom(s, offset, width, i + 1, i + 1)
applyQFT(s, offset, width) ==
  IF ToNumber(width).t # "number" THEN s ELSE applyQFTFrom(s, offset, width, 0, 0)

\* QMath.getWidth(n) with `<=` for the `<` of its loop.
RECURSIVE getWidthFromStrict(_, _)
getWidthFromStrict(i, n) == IF 2^i <= n THEN getWidthFromStrict(i + 1, n) ELSE i

\* QMath.getWidth(n) for n below 2^30, where 1 << i is 2^i: the loop from i.
RECURSIVE getWidthFrom(_, _)
getWidthFrom(i, n) == IF 2^i < n THEN getWidthFrom(i + 1, n) ELSE i
getWidth(n) == getWidthFrom(1, n)

\* The iterations of the loop of QMath.expModN from exp.
RECURSIVE expModNIterations(_)
expModNIterations(exp) == IF exp <= 0 THEN 0 ELSE 1 + expModNIterations(exp \div 2)

\* QMath.expModN(x, k, N) on whole numbers, N > 0 and x >= 0.
RECURSIVE expModNFrom(_, _, _, _)
expModNFrom(base, exp, N, result) ==
  IF exp <= 0 THEN result
  ELSE expModNFrom((base * base) % N, exp \div 2, N,
                   IF exp % 2 = 1 THEN (result * base) % N ELSE result)
expModN(x, k, N) == expModNFrom(x % N, k, N, 1)

\* The vector setState() installs after the loop of applyExpModN or
\* applyRevExpModN: amplitude i of the old vector at index idx(i), zero
\* elsewhere.
Relabelled(s, idx, cnt) ==
  [s EXCEPT !.state = [k \in DOMAIN s.state |->
                         IF \E i \in 0..(cnt - 1) : idx[i] = k
                         THEN At(s.state, CHOOSE i \in 0..(cnt - 1) : idx[i] = k)
                         ELSE 0],
            !.applied = Append(@, [shader |-> "setState"])]

WholeArgs(x, N, width) ==
  /\ ToNumber(x).t = "number" /\ ToNumber(N).t = "number" /\ ToNumber(width).t = "number"
  /\ ToNumber(x).n >= 0 /\ ToNumber(N).n > 0 /\ ToNumber(width).n \in 0..30

applyExpModN(s, x, N, width) ==
  IF ~WholeArgs(x, N, width)
  THEN renderShader(s, [shader |-> "setState"])
  ELSE Relabelled(s, [i \in 0..(2^width.n - 1) |-> expModN(x.n, i, N.n) * 2^width.n + i],
                  2^width.n)

applyRevExpModN(s, x, N, width) ==
  IF ~WholeArgs(x, N, width)
  THEN renderShader(s, [shader |-> "setState"])
  ELSE Relabelled(s, [i \in 0..(2^width.n - 1) |-> expModN(i, x.n, N.n) * 2^width.n + i],
                  2^width.n)

\* The probability of the basis state whose amplitude is <<re, im>>.
Probability(a) == a[1] * a[1] + a[2] * a[2]

\* The sum of the probabilities of the basis states from i on.
RECURSIVE NormFrom(_, _)
NormFrom(state, i) ==
  IF i > Len(state) THEN 0 ELSE Probability(state[i]) + NormFrom(state, i + 1)

\* applyMeasure() with `0 > r` for its test `0 >= r`.
RECURSIVE applyMeasureFromStrict(_, _, _, _)
applyMeasureFromStrict(state, i, r, draws) ==
  IF i > Len(state) THEN Len(state) - 1
  ELSE IF 0 > r - draws * Probability(state[i]) THEN i - 1
  ELSE applyMeasureFromStrict(state, i + 1, r - draws * Probability(state[i]), draws)

\* The second loop of applyMeasure() from basis state i - 1, on the vector
\* read by getState() (state[i] is the amplitude of basis state i - 1).  The
\* draw of Math.random() is draw / draws and r is kept multiplied by draws,
\* so that the subtractions and the test 0 >= r are exact.
RECURSIVE applyMeasureFrom(_, _, _, _)
applyMeasureFrom(state, i, r, draws) ==
  IF i > Len(state) THEN Len(state) - 1
  ELSE IF 0 >= r - draws * Probability(state[i]) THEN i - 1
  ELSE applyMeasureFrom(state, i + 1, r - draws * Probability(state[i]), draws)

\* applyMeasure() when Math.random() returns draw / draws.
applyMeasure(state, draw, draws) ==
  applyMeasureFrom(state, 1, draw * NormFrom(state, 1), draws)

\* applyBitMeasure(bitn): the collapse onto the outcome drawn.
applyBitMeasure(s, bitn, result) ==
  renderShader(s, [shader |-> "collapse", bitmask |-> Shl1(bitn), value |-> result])

\* The simulator call of a gate builtin.
Unitary(s, argv) ==
  renderUnitary(s, argv[1],
                <<FromNumber(argv[2]), FromNumber(argv[4]), FromNumber(argv[6]), FromNumber(argv[8])>>,
                <<FromNumber(argv[3]), FromNumber(argv[5]), FromNumber(argv[7]), FromNumber(argv[9])>>)

KernelOf(s, name, argv, rnd) ==
  CASE name = n_Decoherence -> applyDecoherence(s, argv[1])
    [] name = n_Hadamard -> applyHadamard(s, argv[1])
    [] name = n_SigmaX -> applySigmaX(s, argv[1])
    [] name = n_SigmaY -> applySigmaY(s, argv[1])
    [] name = n_SigmaZ -> applySigmaZ(s, argv[1])
    [] name = n_Unitary -> Unitary(s, argv)
    [] name = n_Rx -> applyRx(s, argv[1], argv[2])
    [] name = n_Ry -> applyRy(s, argv[1], argv[2])
    [] name = n_Rz -> applyRz(s, argv[1], argv[2])
    [] name = n_CNot -> applyCNot(s, argv[1], argv[2])
    [] name = n_Swap -> applySwap(s, argv[1], argv[2])
    [] name = n_Toffoli -> applyToffoli(s, argv[1], argv[2], argv[3])
    [] name = n_Phase -> applyCPhaseShift(s, argv[1], argv[1], Radians(argv[2]))
    [] name = n_CPhase -> applyCPhaseShift(s, argv[1], argv[2], Radians(argv[3]))
    [] name = n_QFTCPhase -> applyPhaseShift(s, argv[1], argv[2], 1)
    [] name = n_InvQFTCPhase -> applyPhaseShift(s, argv[1], argv[2], -1)
    [] name = n_QFT -> applyQFT(s, argv[1], argv[2])
    [] name = n_InvQFT -> applyInvQFT(s, argv[1], argv[2])
    [] name = n_ExpModN -> applyExpModN(s, argv[1], argv[2], argv[3])
    [] name = n_RevExpModN -> applyRevExpModN(s, argv[1], argv[2], argv[3])
    [] name = n_ShiftLeft -> applyShiftLeft(s, argv[1])
    [] name = n_ShiftRight -> applyShiftRight(s, argv[1])
    [] name = n_MeasureBit -> applyBitMeasure(s, argv[1], rnd)
    [] OTHER -> s

\* q.simulator.<kernel>(...): a TypeError when there is no simulator.
applyKernel(w, name, argv, rnd) ==
  IF QS(w).simulator = <<>> THEN Throw(w)
  ELSE [w EXCEPT !.compiler_[1].simulator[1] =
                    KernelOf([@ EXCEPT !.applied = <<>>], name, argv, rnd)]

\* init(vs) without the test of the parity.
initAnyParity(w, vs) ==
  IF JsLess(vs, Num(6)) \/ JsLess(Num(22), vs)
  THEN PushError(w, "State vector size outside of supported range 6..22 or not even: ", 0)
  ELSE [w EXCEPT !.compiler_[1].vectorSize = vs,
                 !.compiler_[1].simulator = <<Simulator(vs)>>]

\* init(vs)
init(w, vs) ==
  IF JsLess(vs, Num(6)) \/ JsLess(Num(22), vs) \/ JsOdd(vs)
  THEN PushError(w, "State vector size outside of supported range 6..22 or not even: ", 0)
  ELSE [w EXCEPT !.compiler_[1].vectorSize = vs,
                 !.compiler_[1].simulator = <<Simulator(vs)>>]

\* A check that lets every qubit number through.
checkBoundLax(w, qbit) == [w |-> w, ok |-> TRUE]

\* checkBound(qbit): [w, ok]
checkBound(w, qbit) ==
  IF JsLess(qbit, Num(0)) \/ JsGreaterEq(qbit, QS(w).vectorSize)
  THEN [w |-> PushError(w, "Qubit number out of range: ", 0), ok |-> FALSE]
  ELSE [w |-> w, ok |-> TRUE]

\* !checkBound(argv[a]) || !checkBound(argv[b]) || ...: the checks run in
\* order and stop at the first failure.
RECURSIVE checkBounds(_, _, _)
checkBounds(w, argv, positions) ==
  IF positions = <<>> THEN [w |-> w, ok |-> TRUE]
  ELSE LET Rest(r) == IF r.ok THEN checkBounds(r.w, argv, Tail(positions)) ELSE r
       IN Rest(checkBound(w, argv[Head(positions)]))

\* The arguments each builtin passes to checkBound, in order.
BoundChecked(name) ==
  CASE name \in {n_CNot, n_Swap, n_CPhase, n_QFTCPhase, n_InvQFTCPhase} -> <<1, 2>>
    [] name = n_Toffoli -> <<1, 2, 3>>
    [] name \in {n_ExpModN, n_RevExpModN} -> <<3>>
    [] name \in {n_Decoherence, n_Measure} -> <<>>
    [] OTHER -> <<1>>

\* consoleOut(msg)
consoleOut(w, msg, v) == [w EXCEPT !.output = Append(@, [msg |-> msg, v |-> v])]

\* The callback the controller gives the engine for the host builtins.
callback_(w, fnc, argv) ==
  CASE fnc = n_Print -> consoleOut(w, "", argv[1])
    [] fnc = n_Delay ->
         IF ~IsNumberType(argv[1]) \/ JsLess(argv[1], Num(1)) \/ JsLess(Num(10000), argv[1])
         THEN [consoleOut(w, "Delay argument must be a number between 1 and 10000.", Undefined)
                 EXCEPT !.runmode_ = FALSE]
         ELSE [w EXCEPT !.runDelay_ = argv[1]]
    [] fnc = n_Display -> [w EXCEPT !.overlayHtml = argv[1]]
    [] fnc = n_SetViewAngle ->
         IF ~IsNumberType(argv[1])
         THEN [consoleOut(w, "View angle must be a number.", Undefined) EXCEPT !.runmode_ = FALSE]
         ELSE w
    [] fnc = n_SetViewMode ->
         IF ~IsNumberType(argv[1]) \/ JsLess(argv[1], Num(0)) \/ JsLess(Num(2), argv[1])
         THEN [consoleOut(w, "View mode must be a number between 0 and 2.", Undefined)
                 EXCEPT !.runmode_ = FALSE]
         ELSE w
    [] OTHER -> [w EXCEPT !.runmode_ = FALSE]

HostBuiltins == {n_Print, n_Breakpoint, n_Delay, n_Display, n_SetViewAngle, n_SetViewMode}

\* builtin.execute(q, argv); rnd is the outcome a measurement draws.
execute(w, name, argv, rnd) ==
  IF name = n_VectorSize THEN init(w, argv[1])
  ELSE IF name \in HostBuiltins THEN callback_(w, name, argv)
  ELSE LET Measured(k) ==
             IF k.thrown \/ name \notin {n_MeasureBit, n_Measure} THEN k
             ELSE [k EXCEPT !.compiler_[1].measuredValue = Num(rnd)]
           Checked(b) ==
             IF ~b.ok THEN b.w
             ELSE IF name = n_QFTCPhase /\ JsLessEq(argv[1], argv[2])
             THEN PushError(b.w, "Error: For QFTCPhase control qbit must be above the target qbit.", 0)
             ELSE IF name = n_InvQFTCPhase /\ JsLessEq(argv[1], argv[2])
             THEN PushError(b.w, "Error: For InvQFTCPhase control qbit must be above the target qbit.", 0)
             ELSE Measured(applyKernel(b.w, name, argv, rnd))
       IN Checked(checkBounds(w, argv, BoundChecked(name)))

\* ------------------------------------------------------------------------
\* runStep and stepBack
\* ------------------------------------------------------------------------
CurrentCode(w) == QS(w).funcs[QS(w).currentFunc].code

\* var frame = this.callStack.pop(); currentFunc = frame[0]; currentStep = frame[1]
popFrame(w) ==
  [w EXCEPT !.compiler_[1].callStack = Pop(@),
            !.compiler_[1].currentFunc = Top(QS(w).callStack)[1],
            !.compiler_[1].currentStep = Top(QS(w).callStack)[2]]

SetStep(w, n) == [w EXCEPT !.compiler_[1].currentStep = n]
Step(w) == QS(w).currentStep

\* case FOR_INIT
runForInit(w, op) ==
  LET Cond(r1) ==
        IF Truthy(r1.v)
        THEN (IF Len(op.args) = 2 THEN SetStep(r1.w, Step(w) + 2)
              ELSE SetStep(executeExpression(r1.w, op.args[3], <<>>).w, Step(w) + 1))
        ELSE (IF Len(op.args) = 2 THEN SetStep(r1.w, op.target + 1)
              ELSE SetStep(r1.w, Step(w) + 2))
  IN Cond(executeExpression(executeExpression(w, op.args[1], <<>>).w, op.args[2], <<>>))

\* case FOR_LOOP with the condition evaluated before the step expression.
runForLoopCondFirst(w, op) ==
  LET Cond(r1, w2) ==
        IF Truthy(r1.v)
        THEN (IF Len(op.args) = 2 THEN SetStep(w2, Step(w) + 1)
              ELSE executeExpression(w2, op.args[3], <<>>).w)
        ELSE (IF Len(op.args) = 2 THEN SetStep(w2, op.target + 1)
              ELSE SetStep(w2, Step(w) + 1))
      Stepped(r1) == Cond(r1, executeExpression(r1.w, op.args[2], <<>>).w)
  IN Stepped(executeExpression(w, op.args[1], <<>>))

\* case FOR_LOOP
runForLoop(w, op) ==
  LET Cond(r1) ==
        IF Truthy(r1.v)
        THEN (IF Len(op.args) = 2 THEN SetStep(r1.w, Step(w) + 1)
              ELSE executeExpression(r1.w, op.args[3], <<>>).w)
        ELSE (IF Len(op.args) = 2 THEN SetStep(r1.w, op.target + 1)
              ELSE SetStep(r1.w, Step(w) + 1))
  IN Cond(executeExpression(executeExpression(w, op.args[2], <<>>).w, op.args[1], <<>>))

\* case IF that lands one opcode further on a false condition.
runIfPastTarget(w, op) ==
  LET Cond(r) ==
        IF Truthy(r.v)
        THEN (IF Len(op.args) = 2
              THEN SetStep(executeExpression(r.w, op.args[2], <<>>).w, Step(w) + 1)
              ELSE SetStep(r.w, Step(w) + 1))
        ELSE SetStep(r.w, op.target + 2)
  IN Cond(executeExpression(w, op.args[1], <<>>))

\* case IF
runIf(w, op) ==
  LET Cond(r) ==
        IF Truthy(r.v)
        THEN (IF Len(op.args) = 2
              THEN SetStep(executeExpression(r.w, op.args[2], <<>>).w, Step(w) + 1)
              ELSE SetStep(r.w, Step(w) + 1))
        ELSE SetStep(r.w, op.target + 1)
  IN Cond(executeExpression(w, op.args[1], <<>>))

\* case BREAK taking the target of the opcode itself.
runBreakDirect(w, op) == SetStep(w, op.target + 1)

\* case BREAK: code[op.target] is dereferenced, a TypeError when there is none
runBreak(w, op) ==
  IF op.target < 0 \/ op.target >= Len(CurrentCode(w)) THEN Throw(w)
  ELSE SetStep(w, CurrentCode(w)[op.target + 1].target + 1)

\* The internal operations.
runControl(w, op) ==
  CASE op.command = FOR_INIT -> runForInit(w, op)
    [] op.command = FOR_LOOP -> runForLoop(w, op)
    [] op.command = FOR_END -> SetStep(w, op.target)
    [] op.command = EXPRESSION_CMD ->
         SetStep(executeExpression(w, op.args[1], <<>>).w, Step(w) + 1)
    [] op.command = IF_CMD -> runIf(w, op)
    [] op.command = ELSE_CMD -> SetStep(w, op.target + 1)
    [] op.command = ENDIF -> SetStep(w, Step(w) + 1)
    [] op.command = RETURN -> SetStep(w, Len(CurrentCode(w)))
    [] OTHER -> runBreak(w, op)

\* The loop of a script function call over the arguments from i (from 1):
\* each argument is evaluated into the parameter, then again for the frame's
\* argument string.  [w, argv]
RECURSIVE bindArgs(_, _, _, _)
bindArgs(w, op, i, argv) ==
  IF i > Len(op.args) THEN [w |-> w, argv |-> argv]
  ELSE IF i > Len(QS(w).funcs[op.ref].args)
  THEN [w |-> Throw(w), argv |-> argv]   \* translateId(fn, undefined)
  ELSE LET Shown(r2) ==
             bindArgs(r2.w, op, i + 1,
                      argv \o (IF i > 1 THEN <<",", " ">> ELSE <<>>) \o toString(r2.v))
           Bound(r1) == Shown(executeExpression(r1.w, op.args[i], <<>>))
           Param(id) == Bound(executeExpression(id.w, op.args[i], id.s \o <<" ", "=", " ">>))
       IN Param(translateId(w, op.ref, QS(w).funcs[op.ref].args[i]))

\* Script function call whose frame holds the step of the call itself.
runCallSameStep(w, op) ==
  LET Enter(b) ==
        IF b.w.thrown THEN b.w
        ELSE [b.w EXCEPT !.compiler_[1].callStack =
                            Append(@, <<QS(w).currentFunc, Step(w), b.argv>>),
                         !.compiler_[1].currentFunc = op.ref,
                         !.compiler_[1].currentStep = 0]
  IN Enter(bindArgs(w, op, 1, <<>>))

\* Script function call.
runCall(w, op) ==
  LET Enter(b) ==
        IF b.w.thrown THEN b.w
        ELSE [b.w EXCEPT !.compiler_[1].callStack =
                            Append(@, <<QS(w).currentFunc, Step(w) + 1, b.argv>>),
                         !.compiler_[1].currentFunc = op.ref,
                         !.compiler_[1].currentStep = 0]
  IN Enter(bindArgs(w, op, 1, <<>>))

\* Builtin call.
runBuiltin(w, op, rnd) ==
  LET Advance(x) == IF x.thrown THEN x ELSE SetStep(x, Step(w) + 1)
      Call(a) == Advance(execute(a.w, getBuiltins[op.ref].name, a.argv, rnd))
  IN Call(evalArgs(w, op.args, 1))

\* runStep(); rnd is the outcome a measurement draws.
runStep(w0, rnd) ==
  LET Return(w3) ==
        IF Step(w3) >= Len(CurrentCode(w3)) /\ Len(QS(w3).callStack) # 0
        THEN popFrame(w3)
        ELSE w3
      Record(w, w2) ==
        IF w2.thrown THEN w2
        ELSE Return([w2 EXCEPT !.compiler_[1].history_ =
                       Append(@, StepData(QS(w2).savedVars_, QS(w2).savedValues_,
                                          QS(w).currentFunc, QS(w).currentStep))])
      Dispatch(w1, op) ==
        IF op.command = "func" THEN runCall(w1, op)
        ELSE IF op.command = "builtin" THEN runBuiltin(w1, op, rnd)
        ELSE runControl(w1, op)
      Run(w) ==
        IF QS(w).currentFunc = 0 THEN Throw(w)
        ELSE IF Step(w) >= Len(CurrentCode(w))
        THEN (IF Len(QS(w).callStack) = 0 THEN w ELSE popFrame(w))
        ELSE Record(w, Dispatch([w EXCEPT !.compiler_[1].errors = <<>>,
                                          !.compiler_[1].savedVars_ = <<>>,
                                          !.compiler_[1].savedValues_ = <<>>],
                                CurrentCode(w)[Step(w) + 1]))
  IN Run([w0 EXCEPT !.thrown = FALSE])

\* restoreValues_(step) from symbol i: the variables get back the values the
\* step saved, each through an evaluated assignment.
RECURSIVE restoreValues_(_, _, _)
restoreValues_(w, step, i) ==
  IF i > Len(step.symbols) THEN w
  ELSE IF step.symbols[i] = MEASURED_VALUE
  THEN restoreValues_([w EXCEPT !.compiler_[1].measuredValue = step.values[i]], step, i + 1)
  ELSE LET Assigned(r) ==
             IF ~r.ok THEN Throw(w)
             ELSE restoreValues_([w EXCEPT !.window = r.window], step, i + 1)
       IN Assigned(eval_(step.symbols[i] \o <<"=">> \o toString(step.values[i]), w.window))

\* The name of the builtin that reverses a builtin; <<>> when it has none.
reverseOf(name) ==
  CASE name \in {n_VectorSize, n_MeasureBit, n_ExpModN, n_RevExpModN} -> <<>>
    [] name = n_QFTCPhase -> n_InvQFTCPhase
    [] name = n_InvQFTCPhase -> n_QFTCPhase
    [] name = n_QFT -> n_InvQFT
    [] name = n_InvQFT -> n_QFT
    [] name = n_ShiftLeft -> n_ShiftRight
    [] name = n_ShiftRight -> n_ShiftLeft
    [] OTHER -> name

\* The reverse called with the arguments of the step.
reverseArgsSame(name, argv) == argv

\* The arguments the reverse is called with.
reverseArgs(name, argv) ==
  CASE name \in {n_Phase, n_Rx, n_Ry, n_Rz} -> [argv EXCEPT ![2] = JsNeg(@)]
    [] name = n_CPhase -> [argv EXCEPT ![3] = JsNeg(@)]
    [] OTHER -> argv

\* stepBack(); rnd is the outcome a replayed measurement draws.
stepBack(w0, rnd) ==
  LET Reverse(name, a) ==
        IF reverseOf(name) = <<>>
        THEN PushError(a.w, "Warning: this step has no reverse operation!", 0)
        ELSE execute(IF name = n_Measure
                     THEN PushError(a.w, "Warning: measurement is normally not reversible!", 0)
                     ELSE a.w,
                     reverseOf(name), reverseArgs(name, a.argv), rnd)
      Undo(w3, op) ==
        IF op.command # "builtin" THEN w3
        ELSE Reverse(getBuiltins[op.ref].name, evalArgs(w3, op.args, 1))
      Restored(w2, step) ==
        IF w2.thrown THEN w2
        ELSE Undo([w2 EXCEPT !.compiler_[1].currentFunc = step.func,
                             !.compiler_[1].currentStep = step.step],
                  QS(w2).funcs[step.func].code[step.step + 1])
      Back(w) ==
        IF Len(QS(w).history_) = 0 THEN w
        ELSE Restored(restoreValues_([w EXCEPT !.compiler_[1].history_ = Pop(@),
                                               !.compiler_[1].errors = <<>>],
                                     Top(QS(w).history_), 1),
                      Top(QS(w).history_))
  IN Back([w0 EXCEPT !.thrown = FALSE])

\* ------------------------------------------------------------------------
\* PlaygroundController: the handlers of the page.  The controller fields
\* live in the same world record w as the engine object.
\* ------------------------------------------------------------------------
DEFAULT_RUN_DELAY == 1
DEFAULT_EXECUTED_STEPS == 20

\* getCurrentCallStack(): the readable frames, innermost first.
RECURSIVE callStackFrom(_, _, _)
callStackFrom(q, i, curfn) ==
  IF i > Len(q.callStack) THEN <<curfn>>
  ELSE <<curfn \o <<" ">> \o q.callStack[i][3]>>
       \o callStackFrom(q, i + 1, q.funcs[q.callStack[i][1]].name)
getCurrentCallStack(q) == callStackFrom(q, 1, q.funcs[q.currentFunc].name)

\* The cell a local of function fo is displayed from (buildLocals' localExpr).
LocalCell(fo, id) ==
  IF id[1] = "_" THEN <<"_">> \o id ELSE fo.name \o <<"_">> \o id

\* getCurrentLocals(): [ok, v]; va[i].toString() is a TypeError on a cell
\* that holds undefined.
getCurrentLocals(w) ==
  LET Values(fo) ==
        IF \E i \in 1..Len(fo.localIds) :
             Get(w.window, LocalCell(fo, fo.localIds[i])).t = "undefined"
        THEN [ok |-> FALSE, v |-> <<>>]
        ELSE [ok |-> TRUE,
              v |-> [i \in 1..Len(fo.localIds) |->
                       <<fo.localIds[i],
                         toString(Get(w.window, LocalCell(fo, fo.localIds[i])))>>]]
  IN Values(QS(w).funcs[QS(w).currentFunc])

\* goog.array.forEach(this.compiler_.errors, consoleOut)
RECURSIVE consoleErrors(_, _)
consoleErrors(w, i) ==
  IF i > Len(QS(w).errors) THEN w
  ELSE consoleErrors(consoleOut(w, QS(w).errors[i].msg, Num(QS(w).errors[i].arg)), i + 1)

\* The controller's compile(): a new engine object compiles the editor text.
hostCompile(w, script) ==
  LET Report(w2, err) ==
        [w2 EXCEPT !.output =
           IF Len(err) = 0 THEN <<[msg |-> "Success.", v |-> Undefined]>>
           ELSE [i \in 1..Len(err) |-> [msg |-> err[i].msg, v |-> Num(err[i].arg)]]]
      Compiled(w2) == Report(w2, QS(w2).errors)
  IN Compiled(compile([w EXCEPT !.compiler_ = <<QScript>>, !.overlayHtml = Str(<<>>),
                                !.thrown = FALSE],
                      script))

\* The end of stepRun_ after its loop: cursor, call stack, locals, the next
\* timer.
stepRunTail(w, cline) ==
  LET Shown(w1, l) ==
        IF ~l.ok THEN Throw(w1)
        ELSE IF w1.runmode_ /\ ~isDone(QS(w1))
        THEN [w1 EXCEPT !.locals = l.v, !.timers = @ + 1]
        ELSE [w1 EXCEPT !.locals = l.v, !.runmode_ = FALSE]
  IN Shown([w EXCEPT !.cursor = cline, !.callstack = getCurrentCallStack(QS(w))],
           getCurrentLocals(w))

\* The loop of stepRun_ without its look at the gutter of the line.
RECURSIVE stepRunLoopNoMarkers(_, _, _)
stepRunLoopNoMarkers(w, i, rnd) ==
  LET Continue(w3, cline) ==
        IF ~w3.runmode_ \/ w3.runDelay_ # Num(DEFAULT_RUN_DELAY)
           \/ i + 1 >= DEFAULT_EXECUTED_STEPS
        THEN stepRunTail(w3, cline)
        ELSE stepRunLoopNoMarkers(w3, i + 1, rnd)
      Reported(w2) ==
        IF Len(CurrentCode(w2)) = 0 THEN Throw(w2)
        ELSE Continue(w2, getCurrentLine(QS(w2)))
      Stepped(w1) == IF w1.thrown THEN w1 ELSE Reported(consoleErrors(w1, 1))
  IN Stepped(runStep(w, rnd))

\* The loop of stepRun_ from iteration i (from 0).
RECURSIVE stepRunLoop(_, _, _)
stepRunLoop(w, i, rnd) ==
  LET Continue(w3, cline) ==
        IF ~w3.runmode_ \/ w3.runDelay_ # Num(DEFAULT_RUN_DELAY)
           \/ i + 1 >= DEFAULT_EXECUTED_STEPS
        THEN stepRunTail(w3, cline)
        ELSE stepRunLoop(w3, i + 1, rnd)
      Located(w2, cline) ==
        Continue(IF cline \in w2.gutterMarkers THEN [w2 EXCEPT !.runmode_ = FALSE] ELSE w2,
                 cline)
      Reported(w2) ==
        \* getCurrentLine() of a function without opcodes reads code[-1].line
        IF Len(CurrentCode(w2)) = 0 THEN Throw(w2)
        ELSE Located(w2, getCurrentLine(QS(w2)))
      Stepped(w1) == IF w1.thrown THEN w1 ELSE Reported(consoleErrors(w1, 1))
  IN Stepped(runStep(w, rnd))

\* stepRun_(opt_noapply)
stepRun_(w0, opt_noapply, rnd) ==
  IF ~opt_noapply /\ ~w0.runmode_ THEN [w0 EXCEPT !.thrown = FALSE]
  ELSE stepRunLoop([w0 EXCEPT !.thrown = FALSE], 0, rnd)

\* run(): the toggle of run mode; starting arms a timer.
run(w) ==
  IF w.compiler_ = <<>> THEN w
  ELSE IF w.runmode_ THEN [w EXCEPT !.runmode_ = FALSE]
  ELSE [w EXCEPT !.runmode_ = TRUE, !.timers = @ + 1]

\* stepInto()
stepInto(w, rnd) == IF w.compiler_ = <<>> THEN w ELSE stepRun_(w, TRUE, rnd)

\* The while loop of stepOver: [w, runaway].  fuel bounds the iterations
\* explored; runaway reports that the loop was still going when it ran out.
RECURSIVE stepOverLoop(_, _, _, _)
stepOverLoop(w, fnc, fuel, rnd) ==
  IF isDone(QS(w)) THEN [w |-> w, runaway |-> FALSE]
  ELSE IF fuel = 0 THEN [w |-> w, runaway |-> TRUE]
  ELSE LET Again(w1) ==
             IF w1.thrown \/ QS(w1).currentFunc = fnc THEN [w |-> w1, runaway |-> FALSE]
             ELSE stepOverLoop(w1, fnc, fuel - 1, rnd)
       IN Again(stepRun_(w, TRUE, rnd))

\* stepOver(): [w, runaway]
stepOver(w, fuel, rnd) ==
  IF w.compiler_ = <<>> THEN [w |-> w, runaway |-> FALSE]
  ELSE stepOverLoop([w EXCEPT !.thrown = FALSE], QS(w).currentFunc, fuel, rnd)

\* The controller's stepBack()
hostStepBack(w, rnd) ==
  LET Shown(w3, l) == IF ~l.ok THEN Throw(w3) ELSE [w3 EXCEPT !.locals = l.v]
      Reported(w2) ==
        IF Len(CurrentCode(w2)) = 0 THEN Throw(w2)
        ELSE Shown([w2 EXCEPT !.cursor = getCurrentLine(QS(w2)),
                              !.callstack = getCurrentCallStack(QS(w2))],
                   getCurrentLocals(w2))
      Stepped(w1) == IF w1.thrown THEN w1 ELSE Reported(consoleErrors(w1, 1))
  IN IF w.compiler_ = <<>> THEN w ELSE Stepped(stepBack(w, rnd))

\* ------------------------------------------------------------------------
\* The state machine
\* ------------------------------------------------------------------------
VARIABLES compiler_, window, thrown, output, runmode_, runDelay_, overlayHtml,
          timers, cursor, callstack, locals, gutterMarkers, undo

vars == <<compiler_, window, thrown, output, runmode_, runDelay_, overlayHtml,
          timers, cursor, callstack, locals, gutterMarkers, undo>>

\* The engine and controller fields as one world record.
World ==
  [compiler_ |-> compiler_, window |-> window, thrown |-> thrown, output |-> output,
   runmode_ |-> runmode_, runDelay_ |-> runDelay_, overlayHtml |-> overlayHtml,
   timers |-> timers, cursor |-> cursor, callstack |-> callstack, locals |-> locals,
   gutterMarkers |-> gutterMarkers]

Becomes(w) ==
  /\ compiler_' = w.compiler_ /\ window' = w.window /\ thrown' = w.thrown
  /\ output' = w.output /\ runmode_' = w.runmode_ /\ runDelay_' = w.runDelay_
  /\ overlayHtml' = w.overlayHtml /\ timers' = w.timers /\ cursor' = w.cursor
  /\ callstack' = w.callstack /\ locals' = w.locals
  /\ gutterMarkers' = w.gutterMarkers

\* The state of the engine: the variable cells, the measured value, the
\* position of execution, the register, the messages and the undo depth.
Snapshot(w) ==
  [window |-> w.window, measuredValue |-> QS(w).measuredValue,
   currentFunc |-> QS(w).currentFunc, currentStep |-> QS(w).currentStep,
   callStack |-> QS(w).callStack, simulator |-> QS(w).simulator,
   errors |-> QS(w).errors, history_ |-> Len(QS(w).history_),
   vectorSize |-> QS(w).vectorSize]
NoSnapshot ==
  [window |-> <<>>, measuredValue |-> Undefined, currentFunc |-> 0, currentStep |-> 0,
   callStack |-> <<>>, simulator |-> <<>>, errors |-> <<>>, history_ |-> 0,
   vectorSize |-> Num(0)]
\* What the last calls did: "ran" after a runStep that executed an opcode S
\* (pre and post are the states around S), "undone" after the stepBack that
\* followed it (mid), "redone" after S ran again from there (again).
NoUndo == [phase |-> "none", pre |-> NoSnapshot, post |-> NoSnapshot,
           mid |-> NoSnapshot, again |-> NoSnapshot]

\* The page after construction: no engine object yet.
Init ==
  /\ compiler_ = <<>> /\ window = <<>> /\ thrown = FALSE /\ output = <<>>
  /\ runmode_ = FALSE /\ runDelay_ = Num(DEFAULT_RUN_DELAY) /\ overlayHtml = Str(<<>>)
  /\ timers = 0 /\ cursor = 0 /\ callstack = <<>> /\ locals = <<>>
  /\ gutterMarkers = {} /\ undo = NoUndo

L_x0 == <<"x", " ", "=", " ", "0">>
L_bump == <<"P", "r", "i", "n", "t", " ", "x", " ", "=", " ", "x", " ", "+", " ", "1">>
L_procf == <<"p", "r", "o", "c", " ", "f">>
L_x1 == <<"x", " ", "=", " ", "1">>
L_endproc == <<"e", "n", "d", "p", "r", "o", "c">>
L_f == <<"f">>
L_Measure == <<"M", "e", "a", "s", "u", "r", "e">>
L_procfa == <<"p", "r", "o", "c", " ", "f", " ", "a">>
L_f12 == <<"f", " ", "1", ",", " ", "2">>
L_procp == <<"p", "r", "o", "c", " ", "p">>
L_Printx == <<"P", "r", "i", "n", "t", " ", "x">>
L_x2 == <<"x", " ", "=", " ", "2">>
L_p == <<"p">>
L_for == <<"f", "o", "r", " ", "i", " ", "=", " ", "0", ";", " ", "i", " ", "<", " ", "1", ";", " ", "i", "+", "+">>
L_Printi == <<"P", "r", "i", "n", "t", " ", "i">>
L_endfor == <<"e", "n", "d", "f", "o", "r">>
L_g1 == <<"_", "g", " ", "=", " ", "1">>
L_g2 == <<"_", "g", " ", "=", " ", "2">>
L_Hadamard0 == <<"H", "a", "d", "a", "m", "a", "r", "d", " ", "0">>

\* The programs executed.
RunScripts ==
  { <<L_x0, L_bump>>,
    <<L_procf, L_x1, L_endproc, L_f>>,
    <<L_Hadamard0, L_Measure>>,
    <<L_procfa, L_endproc, L_f12>>,
    <<L_x1, L_procp, L_Printx, L_x2, L_endproc, L_p>>,
    <<L_procf, L_for, L_Printi, L_endfor, L_endproc, L_f>>,
    <<L_g1, L_procf, L_g2, L_endproc, L_f>> }

\* Bounds of the exploration: the numbers held in cells, the console lines,
\* the frames of the call stack.
Bounded ==
  /\ \A p \in DOMAIN window : window[p].n <= MaxVal
  /\ Len(output) <= MaxOutput
  /\ Len(QS(World).callStack) <= MaxStack

\* No engine object yet: the page has not compiled.
Fresh == compiler_ = <<>>

\* The compile button, once per page.
Compile(script) ==
  /\ Fresh
  /\ Becomes(hostCompile(World, script))
  /\ undo' = NoUndo

\* An opcode is at the position of execution.
AtOpcode ==
  /\ QS(World).currentFunc # 0
  /\ QS(World).currentStep < Len(CurrentCode(World))

\* compiler_.runStep()
RunStep(rnd) ==
  /\ compiler_ # <<>>
  /\ Bounded
  /\ Len(QS(World).history_) < MaxHistory
  /\ LET Ran(w) ==
           /\ Becomes(w)
           /\ undo' = IF ~AtOpcode \/ w.thrown THEN NoUndo
                      ELSE IF undo.phase = "undone"
                      THEN [undo EXCEPT !.phase = "redone", !.again = Snapshot(w)]
                      ELSE [NoUndo EXCEPT !.phase = "ran", !.pre = Snapshot(World),
                                          !.post = Snapshot(w)]
     IN Ran(runStep(World, rnd))

\* compiler_.stepBack()
StepBack(rnd) ==
  /\ compiler_ # <<>>
  /\ Bounded
  /\ LET Went(w) ==
           /\ Becomes(w)
           /\ undo' = IF undo.phase = "ran" /\ ~w.thrown
                      THEN [undo EXCEPT !.phase = "undone", !.mid = Snapshot(w)]
                      ELSE NoUndo
     IN Went(stepBack(World, rnd))

Outcomes == {0, 1}

Next ==
  \/ Fresh /\ \E script \in RunScripts : Compile(script)
  \/ \E rnd \in Outcomes : RunStep(rnd)
  \/ \E rnd \in Outcomes : StepBack(rnd)

Spec == Init /\ [][Next]_vars

\* ------------------------------------------------------------------------
\* Compilation of every script of at most MaxLines lines over an alphabet of
\* lines: the block words, and the calls.
\* ------------------------------------------------------------------------
L_break == <<"b", "r", "e", "a", "k">>
L_continue == <<"c", "o", "n", "t", "i", "n", "u", "e">>
L_ifx == <<"i", "f", " ", "x">>
L_else == <<"e", "l", "s", "e">>
L_endif == <<"e", "n", "d", "i", "f">>
L_Hadamard == <<"H", "a", "d", "a", "m", "a", "r", "d">>
L_Measure1 == <<"M", "e", "a", "s", "u", "r", "e", " ", "1">>
L_CNot01 == <<"C", "N", "o", "t", " ", "0", ",", " ", "1">>
L_ifxy == <<"i", "f", " ", "x", ";", " ", "y", " ", "=", " ", "1">>
L_for4 == <<"f", "o", "r", " ", "i", " ", "=", " ", "0", ";", " ", "i", " ", "<", " ", "1", ";", " ", "i", "+", "+", ";", " ", "P", "r", "i", "n", "t", " ", "i">>

BlockLines == {L_for, L_endfor, L_break, L_continue, L_ifx, L_else, L_endif}
CallLines == {L_Hadamard, L_Hadamard0, L_Measure, L_Measure1, L_CNot01, L_procf,
              L_endproc, L_ifxy, L_for4}

ScriptsOver(alphabet) == UNION {[1..n -> alphabet] : n \in 0..MaxLines}

\* Block words inside a proc that is written inside a block.
ProcInBlockScripts ==
  { <<L_for, L_procf, L_endfor, L_endproc, L_endfor>>,
    <<L_for, L_procf, L_break, L_continue, L_endproc, L_endfor>>,
    <<L_ifx, L_procf, L_else, L_endif, L_endproc, L_else, L_endif>>,
    <<L_procf, L_for, L_endproc, L_endfor, L_ifx, L_endif, L_endif>> }

NextCompile ==
  \/ Fresh /\ \E script \in ScriptsOver(BlockLines) : Compile(script)
  \/ Fresh /\ \E script \in ScriptsOver(CallLines) : Compile(script)
  \/ Fresh /\ \E script \in ProcInBlockScripts : Compile(script)

SpecCompile == Init /\ [][NextCompile]_vars

\* ------------------------------------------------------------------------
\* The page: the buttons of the controller and its run timer.
\* ------------------------------------------------------------------------
HostScripts ==
  { <<L_Hadamard, L_x1>>,
    <<L_x0, L_bump>>,
    <<L_procf, L_x1, L_endproc, L_f, L_x2>>,
    <<L_Printx>>,
    <<>> }

HostBounded ==
  /\ ~Fresh
  /\ Bounded
  /\ Len(QS(World).history_) < MaxHistory
  /\ timers <= MaxTimers

\* What a click or a timer did: "run" after the run button, "tick" after a
\* stepRun_ timer (pre and post are the states around it, rnd the outcome its
\* measurements drew).
Clicked(phase, w, rnd) ==
  [phase |-> phase, pre |-> Snapshot(World), post |-> Snapshot(w), mid |-> NoSnapshot,
   again |-> NoSnapshot, rnd |-> rnd]

\* The run button.
Run ==
  /\ HostBounded
  /\ LET Toggled(w) == Becomes(w) /\ undo' = Clicked("run", w, 0)
     IN Toggled(run(World))

\* A pending stepRun_ timer fires.
TimerFires(rnd) ==
  /\ HostBounded
  /\ timers > 0
  /\ LET Ticked(w) == Becomes(w) /\ undo' = Clicked("tick", w, rnd)
     IN Ticked(stepRun_([World EXCEPT !.timers = @ - 1], FALSE, rnd))

\* The step into button.
StepInto(rnd) ==
  /\ HostBounded
  /\ Becomes(stepInto(World, rnd))
  /\ undo' = NoUndo

\* The step over button.
StepOver(rnd) ==
  /\ HostBounded
  /\ LET Done(r) == ~r.runaway /\ Becomes(r.w)
     IN Done(stepOver(World, MaxStepOver, rnd))
  /\ undo' = NoUndo

\* The step back button.
HostStepBack(rnd) ==
  /\ ~Fresh
  /\ Bounded
  /\ Becomes(hostStepBack(World, rnd))
  /\ undo' = NoUndo

NextHost ==
  \/ Fresh /\ \E script \in HostScripts : Compile(script)
  \/ Run
  \/ \E rnd \in Outcomes : TimerFires(rnd)
  \/ \E rnd \in Outcomes : StepInto(rnd)
  \/ \E rnd \in Outcomes : StepOver(rnd)
  \/ \E rnd \in Outcomes : HostStepBack(rnd)

SpecHost == Init /\ [][NextHost]_vars

\* ------------------------------------------------------------------------
\* The page with breakpoints: programs that set the run delay, and a program
\* longer than one timer tick executes.
\* ------------------------------------------------------------------------
L_Delay5 == <<"D", "e", "l", "a", "y", " ", "5">>
L_Delay0 == <<"D", "e", "l", "a", "y", " ", "0">>
L_Delay20000 == <<"D", "e", "l", "a", "y", " ", "2", "0", "0", "0", "0">>
L_Delayy == <<"D", "e", "l", "a", "y", " ", "y">>
L_Delayy1 == <<"D", "e", "l", "a", "y", " ", "y", "*", "1">>

\* A program of more opcodes than one tick executes.
LongScript == [i \in 1..(DEFAULT_EXECUTED_STEPS + 2) |-> L_x1]

PageScripts ==
  { LongScript,
    <<L_x0, L_x1, L_x2, L_x1>>,
    <<L_x1, L_Delay5, L_x2, L_x1>>,
    <<L_x1, L_Delay0, L_x2>>,
    <<L_x1, L_Delay20000, L_x2>>,
    <<L_x1, L_Delayy, L_x2>>,
    <<L_x1, L_Delayy1, L_x2>> }

\* The lines of the editor whose gutter is clicked.
GutterLines == 1..MaxMarker

\* gutterClick on line n: the marker of the line is set, or removed.
ToggleBreakpoint(n) ==
  /\ gutterMarkers' = IF n \in gutterMarkers THEN gutterMarkers \ {n}
                      ELSE gutterMarkers \cup {n}
  /\ UNCHANGED <<compiler_, window, thrown, output, runmode_, runDelay_, overlayHtml,
                 timers, cursor, callstack, locals>>
  /\ undo' = NoUndo

NextPage ==
  \/ Fresh /\ \E script \in PageScripts : Compile(script)
  \/ \E n \in GutterLines : ToggleBreakpoint(n)
  \/ Run
  \/ \E rnd \in Outcomes : TimerFires(rnd)
  \/ \E rnd \in Outcomes : StepInto(rnd)
  \/ \E rnd \in Outcomes : StepOver(rnd)
  \/ \E rnd \in Outcomes : HostStepBack(rnd)

SpecPage == Init /\ [][NextPage]_vars

\* ------------------------------------------------------------------------
\* The gates: programs of gate builtins, run and stepped back.
\* ------------------------------------------------------------------------
L_VectorSize6 == <<"V", "e", "c", "t", "o", "r", "S", "i", "z", "e", " ", "6">>
L_VectorSize4 == <<"V", "e", "c", "t", "o", "r", "S", "i", "z", "e", " ", "4">>
L_VectorSize7 == <<"V", "e", "c", "t", "o", "r", "S", "i", "z", "e", " ", "7">>
L_VectorSize24 == <<"V", "e", "c", "t", "o", "r", "S", "i", "z", "e", " ", "2", "4">>
L_Hadamard7 == <<"H", "a", "d", "a", "m", "a", "r", "d", " ", "7">>
L_CNot09 == <<"C", "N", "o", "t", " ", "0", ",", " ", "9">>
L_QFT53 == <<"Q", "F", "T", " ", "5", ",", " ", "3">>
L_QFT03 == <<"Q", "F", "T", " ", "0", ",", " ", "3">>
L_InvQFT12 == <<"I", "n", "v", "Q", "F", "T", " ", "1", ",", " ", "2">>
L_UnitaryS == <<"U", "n", "i", "t", "a", "r", "y", " ", "0", ",", "1", ",", "0", ",", "0", ",", "0", ",", "0", ",", "0", ",", "0", ",", "1">>
L_MeasureBit0 == <<"M", "e", "a", "s", "u", "r", "e", "B", "i", "t", " ", "0">>
L_ExpModN == <<"E", "x", "p", "M", "o", "d", "N", " ", "2", ",", " ", "3", ",", " ", "2">>
L_RevExpModN == <<"R", "e", "v", "E", "x", "p", "M", "o", "d", "N", " ", "2", ",", " ", "3", ",", " ", "2">>
L_ExpModNWide == <<"E", "x", "p", "M", "o", "d", "N", " ", "4", "0", ",", " ", "6", "4", ",", " ", "1">>
L_ExpModNOne == <<"E", "x", "p", "M", "o", "d", "N", " ", "2", ",", " ", "1", ",", " ", "1">>
L_Rx == <<"R", "x", " ", "1", ",", " ", "1">>
L_Ry == <<"R", "y", " ", "0", ",", " ", "1">>
L_Rz == <<"R", "z", " ", "0", ",", " ", "1">>
L_SigmaX0 == <<"S", "i", "g", "m", "a", "X", " ", "0">>
L_SigmaZ0 == <<"S", "i", "g", "m", "a", "Z", " ", "0">>
L_InvQFTCPhase == <<"I", "n", "v", "Q", "F", "T", "C", "P", "h", "a", "s", "e", " ", "1", ",", " ", "0">>
L_ShiftLeft1 == <<"S", "h", "i", "f", "t", "L", "e", "f", "t", " ", "1">>
L_Phase == <<"P", "h", "a", "s", "e", " ", "1", ",", " ", "2">>
L_CPhase == <<"C", "P", "h", "a", "s", "e", " ", "0", ",", " ", "1", ",", " ", "1">>
L_Swap01 == <<"S", "w", "a", "p", " ", "0", ",", " ", "1">>
L_SigmaY0 == <<"S", "i", "g", "m", "a", "Y", " ", "0">>
L_ShiftRight1 == <<"S", "h", "i", "f", "t", "R", "i", "g", "h", "t", " ", "1">>
L_MeasureBitx == <<"M", "e", "a", "s", "u", "r", "e", "B", "i", "t", " ", "x", " ", "=", " ", "0">>
L_Toffoli == <<"T", "o", "f", "f", "o", "l", "i", " ", "0", ",", " ", "1", ",", " ", "2">>
L_QFTCPhase == <<"Q", "F", "T", "C", "P", "h", "a", "s", "e", " ", "1", ",", " ", "0">>
L_Hadamard1 == <<"H", "a", "d", "a", "m", "a", "r", "d", " ", "1">>
L_QFT24 == <<"Q", "F", "T", " ", "2", ",", " ", "4">>
L_InvQFT06 == <<"I", "n", "v", "Q", "F", "T", " ", "0", ",", " ", "6">>

GateScripts ==
  { <<L_VectorSize6, L_Hadamard7, L_Hadamard0, L_CNot09>>,
    <<L_Hadamard0, L_VectorSize4, L_VectorSize7, L_VectorSize24, L_VectorSize6>>,
    <<L_VectorSize6, L_QFT53>>,
    <<L_VectorSize6, L_Hadamard0, L_QFT03, L_InvQFT12>>,
    <<L_VectorSize6, L_Hadamard1, L_QFT24, L_InvQFT06>>,
    <<L_VectorSize6, L_Hadamard0, L_UnitaryS>>,
    <<L_VectorSize6, L_Hadamard0, L_MeasureBit0, L_Measure, L_VectorSize6>>,
    <<L_VectorSize6, L_Hadamard0, L_MeasureBitx, L_ExpModN, L_RevExpModN>>,
    <<L_VectorSize6, L_Hadamard0, L_ExpModN>>,
    <<L_VectorSize6, L_Hadamard0, L_ExpModNWide>>,
    <<L_VectorSize6, L_Hadamard0, L_ExpModNOne>>,
    <<L_VectorSize6, L_Hadamard1, L_Rx, L_Phase, L_CPhase, L_QFTCPhase>>,
    <<L_VectorSize6, L_Hadamard0, L_Swap01, L_SigmaY0, L_Toffoli, L_ShiftRight1>>,
    <<L_VectorSize6, L_Hadamard0, L_SigmaX0, L_SigmaZ0, L_Ry, L_Rz>>,
    <<L_VectorSize6, L_Hadamard0, L_CNot01, L_InvQFTCPhase, L_ShiftLeft1>> }

NextGates ==
  \/ Fresh /\ \E script \in GateScripts : Compile(script)
  \/ \E rnd \in Outcomes : RunStep(rnd)
  \/ \E rnd \in Outcomes : StepBack(rnd)

SpecGates == Init /\ [][NextGates]_vars

\* ------------------------------------------------------------------------
\* Properties
\* ------------------------------------------------------------------------
Compiled == compiler_ # <<>>
Q == QS(World)

\* The cells of two snapshots, and those whose values differ between them.
Cells(a, b) == DOMAIN a.window \cup DOMAIN b.window
WrittenCells(a, b) == {p \in Cells(a, b) : Get(a.window, p) # Get(b.window, p)}
SameClassical(a, b) ==
  /\ \A p \in Cells(a, b) : Get(a.window, p) = Get(b.window, p)
  /\ a.measuredValue = b.measuredValue
  /\ a.currentFunc = b.currentFunc
  /\ a.currentStep = b.currentStep

\* C1: after a runStep that executed an opcode S, a following stepBack gives
\* every cell S wrote the value it had before S, and executing S again from
\* there reproduces the classical state S produced the first time.
C1_UndoCompleteness ==
  /\ undo.phase = "undone" =>
       \A p \in WrittenCells(undo.pre, undo.post) :
          Get(undo.mid.window, p) = Get(undo.pre.window, p)
  /\ undo.phase = "redone" => SameClassical(undo.again, undo.post)

\* The stepBack of C1 has happened over a step that wrote a cell.
C1_Undone == undo.phase = "undone" /\ WrittenCells(undo.pre, undo.post) # {}

\* C2: in every reachable state isDone() is true exactly when currentFunc is
\* __main__, currentStep is past the end of its code and the call stack is
\* empty.
C2_IsDoneMeansMainEnded ==
  Compiled =>
    (isDone(Q) <=> /\ Q.currentFunc = Q.main
                   /\ Q.currentStep >= Len(Q.funcs[Q.main].code)
                   /\ Len(Q.callStack) = 0)

\* isDone() holds in a state reached through a stepBack.
C2_Done == Compiled /\ isDone(Q) /\ undo.phase = "redone"

\* C3: every runStep and stepBack call returns normally: no exception
\* escapes the engine.
C3_NeverAborts == ~thrown

\* A gate before VectorSize is recorded in errors by a runStep that returned.
C3_FaultRecorded == Compiled /\ ~thrown /\ Q.errors # <<>> /\ Len(Q.history_) > 0

\* The errors the compilation of the program of the engine object left.
CompileErrors == compileFunction(Q.text_, <<>>).errors

\* C4: a program whose compilation left errors is never executed: no opcode
\* of it has been run, so the engine holds no undo record of one.
C4_FailedProgramNotRun == (Compiled /\ CompileErrors # <<>>) => Q.history_ = <<>>

\* The host has compiled a program with errors.
C4_CompileFailed == Compiled /\ CompileErrors # <<>>

\* C5: a runStep that executes an opcode pushes exactly one undo record, a
\* runStep at the end pushes none, stepBack pops exactly one; and whenever
\* the history is empty again execution is at opcode 0 of __main__.
C5_HistoryLaw ==
  [][Compiled =>
      /\ ((AtOpcode /\ \E rnd \in Outcomes : RunStep(rnd)) =>
             Len(compiler_'[1].history_) = Len(Q.history_) + 1)
      /\ ((~AtOpcode /\ \E rnd \in Outcomes : RunStep(rnd)) =>
             compiler_'[1].history_ = Q.history_)
      /\ ((Q.history_ # <<>> /\ \E rnd \in Outcomes : StepBack(rnd)) =>
             Len(compiler_'[1].history_) = Len(Q.history_) - 1)
      /\ (isStart(compiler_'[1]) =>
             compiler_'[1].currentFunc = compiler_'[1].main
             /\ compiler_'[1].currentStep = 0)]_vars

\* All the steps taken have been undone.
C5_BackAtStart == Compiled /\ isStart(Q) /\ undo.phase = "undone"

\* The opcode at index k (from 0) of the code of function f.
OpAt(f, k) == Q.funcs[f].code[k + 1]
\* The functions of the compiled program and the indices of their opcodes.
Functions == 1..Len(Q.funcs)
Indices(f) == 0..(Len(Q.funcs[f].code) - 1)

\* C6: when compilation ends with an empty errors list, every FOR_INIT, IF
\* and ELSE opcode of every compiled function has target >= 0.
C6_BranchTargetsFixed ==
  (Compiled /\ Q.errors = <<>>) =>
    \A f \in Functions : \A k \in Indices(f) :
       OpAt(f, k).command \in {FOR_INIT, IF_CMD, ELSE_CMD} => OpAt(f, k).target >= 0

\* An error-free compilation has produced a branch opcode.
C6_BranchCompiled ==
  Compiled /\ Q.errors = <<>> /\ \E f \in Functions : \E k \in Indices(f) :
     OpAt(f, k).command \in {FOR_INIT, IF_CMD, ELSE_CMD}

\* The opcode was emitted for a source line that is the single keyword kw.
EmittedFor(op, kw) == tokenize(trim(Q.text_[op.line])) = <<Token(ID, kw)>>

\* The block-form loops open before the opcode at index k (from 0) of code:
\* the indices of their FOR_INIT opcodes, the innermost loop last.  A block
\* `for` opens a loop and the FOR_END of an `endfor` closes the innermost.
RECURSIVE OpenLoops(_, _)
OpenLoops(code, k) ==
  IF k = 0 THEN <<>>
  ELSE LET After(st, op) ==
             IF op.command = FOR_INIT /\ Len(op.args) = 2 THEN Append(st, k - 1)
             ELSE IF op.command = FOR_END /\ EmittedFor(op, kw_endfor) /\ st # <<>>
                  THEN Pop(st)
             ELSE st
       IN After(OpenLoops(code, k - 1), code[k])

\* A BREAK opcode, or the FOR_END opcode emitted for `continue`.
LeavesBody(op) ==
  op.command = BREAK \/ (op.command = FOR_END /\ EmittedFor(op, kw_continue))

\* The opcode at k targets the opcode d after the FOR_INIT of the innermost
\* loop of the stack st, and that opcode has command cmd.
TargetsLoop(code, k, st, d, cmd) ==
  /\ st # <<>>
  /\ code[Top(st) + 1].command = FOR_INIT
  /\ code[k + 1].target = Top(st) + d
  /\ code[code[k + 1].target + 1].command = cmd

\* C7 as stated: every BREAK opcode and every opcode emitted for `continue`
\* has as target the index of the FOR_INIT opcode of the innermost enclosing
\* `for` loop.
C7_TargetIsForInit ==
  Compiled =>
    \A f \in Functions : \A k \in Indices(f) :
       LeavesBody(OpAt(f, k)) =>
          TargetsLoop(Q.funcs[f].code, k, OpenLoops(Q.funcs[f].code, k), 0, FOR_INIT)

\* C7: every BREAK opcode and every opcode emitted for `continue` has as
\* target the index of the FOR_LOOP opcode of the innermost enclosing `for`
\* loop, which is the index of its FOR_INIT opcode plus one.
C7_TargetIsForLoop ==
  Compiled =>
    \A f \in Functions : \A k \in Indices(f) :
       LeavesBody(OpAt(f, k)) =>
          TargetsLoop(Q.funcs[f].code, k, OpenLoops(Q.funcs[f].code, k), 1, FOR_LOOP)

\* A `break` and a `continue` have been compiled inside a loop nested in
\* another loop.
C7_NestedBreakAndContinue ==
  Compiled /\ \E f \in Functions : \E k, m \in Indices(f) :
     /\ OpAt(f, k).command = BREAK
     /\ OpAt(f, m).command = FOR_END /\ EmittedFor(OpAt(f, m), kw_continue)
     /\ Len(OpenLoops(Q.funcs[f].code, k)) = 2
     /\ Len(OpenLoops(Q.funcs[f].code, m)) = 2

\* The FOR_END at e closes the innermost loop of st: it targets the FOR_LOOP
\* of that loop, and the FOR_INIT and FOR_LOOP of the loop both target e.
ClosesLoop(code, e, st) ==
  /\ TargetsLoop(code, e, st, 1, FOR_LOOP)
  /\ code[Top(st) + 1].target = e
  /\ code[Top(st) + 2].target = e

\* C8: every FOR_END opcode emitted by `endfor` has as target the index of
\* the FOR_LOOP opcode of the loop it closes (the FOR_INIT index plus one),
\* and the FOR_INIT and FOR_LOOP targets of that loop both equal the index of
\* this FOR_END, however the loops are nested.
C8_EndforLinksLoop ==
  Compiled =>
    \A f \in Functions : \A e \in Indices(f) :
       (OpAt(f, e).command = FOR_END /\ EmittedFor(OpAt(f, e), kw_endfor)) =>
          ClosesLoop(Q.funcs[f].code, e, OpenLoops(Q.funcs[f].code, e))

\* Two nested loops have both been closed by their `endfor`.
C8_NestedLoopsClosed ==
  Compiled /\ \E f \in Functions : \E e, o \in Indices(f) :
     /\ e < o
     /\ OpAt(f, e).command = FOR_END /\ EmittedFor(OpAt(f, e), kw_endfor)
     /\ OpAt(f, o).command = FOR_END /\ EmittedFor(OpAt(f, o), kw_endfor)
     /\ Len(OpenLoops(Q.funcs[f].code, e)) = 2
     /\ Len(OpenLoops(Q.funcs[f].code, o)) = 1

\* The functions from fn up to __main__, fn first.
RECURSIVE Chain(_, _)
Chain(funcs, fn) == IF fn = 0 THEN <<>> ELSE <<fn>> \o Chain(funcs, funcs[fn].parent)

\* The nearest function of the chain ch that declares id; fn when none does.
Nearest(funcs, ch, fn, id) ==
  IF \A k \in 1..Len(ch) : ~HasLocal(funcs[ch[k]], id) THEN fn
  ELSE ch[CHOOSE k \in 1..Len(ch) :
            /\ HasLocal(funcs[ch[k]], id)
            /\ \A m \in 1..(k - 1) : ~HasLocal(funcs[ch[m]], id)]

\* The name of the cell of id in function f.
CellOf(funcs, f, id) == VARS_PREFIX \o funcs[f].name \o <<"_">> \o id
\* The cell the scope rule gives id used in fn.
RuleCell(funcs, fn, id) == CellOf(funcs, Nearest(funcs, Chain(funcs, fn), fn, id), id)

\* Identifiers to resolve: declared in __main__, in a proc, in both, nowhere.
ProbeIds == {<<"x">>, <<"i">>, <<"a">>, <<"y">>}
GlobalIds == {<<"_", "g">>, <<"_", "h">>}
\* A read `id` and an assignment `id = 1`, as the lexer hands them over.
ReadOf(id) == tokenize(id)
AssignmentOf(id) == tokenize(id \o <<" ", "=", " ", "1">>)
\* What is left of the translated assignment after the cell.
Assigned == <<"=", "1">>

\* The translation in the current function resolves id to cell, and id is
\* then declared in scope.
ResolvesTo(tr, cell, rest, scope, id) ==
  /\ tr.s = cell \o rest
  /\ HasLocal(QS(tr.w).funcs[scope], id)

\* Identifiers beginning with `_` have one global cell, from every function.
GlobalsShared ==
  \A g \in GlobalIds : \A f \in Functions :
     /\ translateId(World, f, g).s = VARS_PREFIX \o <<"_">> \o g
     /\ QS(translateId(World, f, g).w).funcs = Q.funcs

\* A read of id in the current function resolves by the scope rule.
ReadsByRule(id) ==
  ResolvesTo(translateFrom(World, ReadOf(id), 0, <<>>),
             RuleCell(Q.funcs, Q.currentFunc, id), <<>>,
             Nearest(Q.funcs, Chain(Q.funcs, Q.currentFunc), Q.currentFunc, id), id)

\* C9 as stated: an identifier used in the current function, whether read
\* or assigned, resolves to the cell of the nearest function of the scope
\* chain that declares it, else to a new local of the current function; an
\* identifier beginning with `_` resolves to one global cell everywhere.
C9_ScopeRuleReadOrAssigned ==
  Compiled =>
    /\ GlobalsShared
    /\ \A id \in ProbeIds :
         /\ ReadsByRule(id)
         /\ ResolvesTo(translateFrom(World, AssignmentOf(id), 0, <<>>),
                       RuleCell(Q.funcs, Q.currentFunc, id), Assigned,
                       Nearest(Q.funcs, Chain(Q.funcs, Q.currentFunc), Q.currentFunc, id),
                       id)

\* C9: a read resolves by the scope rule; an assignment `x = ...` that opens
\* an expression resolves to the current function's own cell, declaring x
\* there even when an ancestor declares it; an identifier beginning with `_`
\* resolves to one global cell everywhere.
C9_AssignmentDeclaresLocal ==
  Compiled =>
    /\ GlobalsShared
    /\ \A id \in ProbeIds :
         /\ ReadsByRule(id)
         /\ ResolvesTo(translateFrom(World, AssignmentOf(id), 0, <<>>),
                       CellOf(Q.funcs, Q.currentFunc, id), Assigned,
                       Q.currentFunc, id)

\* A proc has run `x = 2` while __main__ declares x: the proc has its own
\* cell for x, holding 2, and the x of __main__ still holds 1.
C9_ProcAssignedOwnCell ==
  Compiled /\ \E f \in Functions :
     /\ f # Q.main
     /\ HasLocal(Q.funcs[f], <<"x">>) /\ HasLocal(Q.funcs[Q.main], <<"x">>)
     /\ Get(window, PropertyOf(CellOf(Q.funcs, f, <<"x">>))) = Num(2)
     /\ Get(window, PropertyOf(CellOf(Q.funcs, Q.main, <<"x">>))) = Num(1)

\* The script line n (from 1) as tokens.
TokensOf(n) == tokenize(trim(Q.text_[n]))
\* The number of argument expressions parsed on a line.
ArgCount(t) == IF Len(t) = 1 THEN 0 ELSE Len(parseExpressions(t, 1))
\* Some opcode was emitted for line n; one calls builtin i.
EmittedOn(n) == \E f \in Functions : \E k \in Indices(f) : OpAt(f, k).line = n
CallsBuiltinOn(n, i) ==
  \E f \in Functions : \E k \in Indices(f) :
     OpAt(f, k).line = n /\ OpAt(f, k).command = "builtin" /\ OpAt(f, k).ref = i
WrongArityOn(n) ==
  \E j \in 1..Len(Q.errors) : Q.errors[j] = Error("Wrong number of arguments in line ", n)

\* Line n with tokens t naming builtin i is compiled by the arity rule.
ArityChecked(n, t, i) ==
  IF getBuiltins[i].arity = ArgCount(t)
  THEN CallsBuiltinOn(n, i) /\ ~WrongArityOn(n)
  ELSE WrongArityOn(n) /\ ~EmittedOn(n)

\* C10: for every source line whose first token names a builtin, an opcode
\* calling it is emitted exactly when the number of parsed arguments equals
\* its arity; otherwise `Wrong number of arguments in line N` is added to
\* errors and no opcode is emitted, and the lines after it are compiled.
C10_BuiltinArityChecked ==
  Compiled =>
    \A n \in 1..Len(Q.text_) :
       (TokensOf(n) # <<>> /\ TokensOf(n)[1].type = ID
          /\ BuiltinIndex(TokensOf(n)[1].body) # Len(getBuiltins) + 1) =>
            ArityChecked(n, TokensOf(n), BuiltinIndex(TokensOf(n)[1].body))

\* A builtin line with the wrong number of arguments was rejected and a later
\* builtin line compiled.
C10_RejectedAndContinued ==
  Compiled /\ \E n, m \in 1..Len(Q.text_) :
     n < m /\ WrongArityOn(n) /\ ~EmittedOn(n) /\ EmittedOn(m)

\* ------------------------------------------------------------------------
\* The gates
\* ------------------------------------------------------------------------
\* The world the last executed opcode started from, and that opcode.
PreWorld ==
  [World EXCEPT !.window = undo.pre.window,
                !.compiler_[1].currentFunc = undo.pre.currentFunc,
                !.compiler_[1].currentStep = undo.pre.currentStep,
                !.compiler_[1].measuredValue = undo.pre.measuredValue,
                !.compiler_[1].errors = <<>>]
RanOp == Q.funcs[undo.pre.currentFunc].code[undo.pre.currentStep + 1]
RanBuiltin == IF RanOp.command = "builtin" THEN getBuiltins[RanOp.ref].name ELSE <<>>
\* The values its arguments had.
RanArgv == evalArgs(PreWorld, RanOp.args, 1).argv

\* The parameters of the gate builtins that name a qubit: bitn, bitc, bitc1,
\* bitc2.
QubitParams(name) ==
  CASE name \in {n_CNot, n_Swap, n_CPhase, n_QFTCPhase, n_InvQFTCPhase} -> {1, 2}
    [] name = n_Toffoli -> {1, 2, 3}
    [] name \in {n_Hadamard, n_SigmaX, n_SigmaY, n_SigmaZ, n_Unitary, n_Rx, n_Ry, n_Rz,
                 n_Phase, n_MeasureBit} -> {1}
    [] OTHER -> {}

\* The number b is not a qubit of a register of vs qubits.
OutOfRange(b, vs) == b.t = "number" /\ (b.n < 0 \/ b.n >= vs.n)

\* The last step executed a gate builtin with a qubit argument out of range.
RanOutOfRange ==
  /\ undo.phase = "ran"
  /\ QubitParams(RanBuiltin) # {}
  /\ \E k \in QubitParams(RanBuiltin) : OutOfRange(RanArgv[k], Q.vectorSize)

\* The position after the opcode at step k of function f: the next opcode,
\* or the caller's when that was the last opcode of a call.
Advanced(pre, post) ==
  IF pre.currentStep + 1 >= Len(Q.funcs[pre.currentFunc].code) /\ pre.callStack # <<>>
  THEN /\ post.currentFunc = pre.callStack[Len(pre.callStack)][1]
       /\ post.currentStep = pre.callStack[Len(pre.callStack)][2]
  ELSE post.currentFunc = pre.currentFunc /\ post.currentStep = pre.currentStep + 1

\* C11: a step that executes a gate builtin with a qubit argument b outside
\* 0 <= b < vectorSize records `Qubit number out of range`, leaves the register
\* and the measured value as they were, moves on to the next opcode and pushes
\* one undo record.
C11_OutOfRangeGateSkipped ==
  RanOutOfRange =>
    /\ \E e \in 1..Len(undo.post.errors) :
          undo.post.errors[e].msg = "Qubit number out of range: "
    /\ undo.post.simulator = undo.pre.simulator
    /\ undo.post.measuredValue = undo.pre.measuredValue
    /\ Advanced(undo.pre, undo.post)
    /\ undo.post.history_ = undo.pre.history_ + 1

\* A gate on a qubit out of range ran on a register that exists.
C11_OutOfRangeOnRegister == RanOutOfRange /\ undo.pre.simulator # <<>>

\* The register, once a VectorSize created it.
HasRegister == Compiled /\ Q.simulator # <<>>
Register == Q.simulator[1]

\* The qubits a render acts on, as the bit masks it was given.
QubitMasks(r) ==
  CASE r.shader \in {"unitary", "sigmax", "sigmay", "sigmaz", "collapse"} -> {r.bitmask}
    [] r.shader = "toffoli" -> {r.bitmask, r.cbitmask1, r.cbitmask2}
    [] r.shader = "swap" -> {r.bitmask1, r.bitmask2}
    [] r.shader = "cphase" -> {r.cbitmask1, r.cbitmask2}
    [] OTHER -> {}

\* C12: every render of a gate kernel acts on qubits of the register only:
\* each bit mask it is given is 1 << k for a qubit k in 0..n-1, the renders
\* of QFT and InvQFT over offset..offset+width-1 included.
C12_KernelsInRange ==
  HasRegister =>
    \A k \in 1..Len(Register.applied) :
       \A mask \in QubitMasks(Register.applied[k]) :
          \E b \in 0..(Register.size.n - 1) : mask = 2^b

\* A QFT or InvQFT just issued its renders.
C12_QFTRan ==
  /\ HasRegister /\ undo.phase = "ran"
  /\ RanBuiltin \in {n_QFT, n_InvQFT}
  /\ Len(Register.applied) > 1

\* The builtins with an entry in the reverse table of stepBack.
ReverseTable ==
  {n_Hadamard, n_SigmaX, n_SigmaY, n_SigmaZ, n_CNot, n_Swap, n_Toffoli, n_Unitary,
   n_Phase, n_CPhase, n_Rx, n_Ry, n_Rz, n_QFTCPhase, n_InvQFTCPhase, n_QFT, n_InvQFT,
   n_ShiftLeft, n_ShiftRight}

\* A step that executed a gate of the reverse table on the register was
\* stepped back.
GateUndone ==
  /\ undo.phase = "undone"
  /\ RanBuiltin \in ReverseTable
  /\ undo.pre.simulator # <<>>

\* C13: a gate G of the reverse table followed by the reverse stepBack
\* replays for it leaves the state vector as it was before G.
C13_ReverseRestoresVector ==
  GateUndone => undo.mid.simulator[1].state = undo.pre.simulator[1].state

\* A Unitary gate changed the vector and was stepped back.
C13_UnitaryUndone ==
  /\ GateUndone /\ RanBuiltin = n_Unitary
  /\ undo.post.simulator[1].state # undo.pre.simulator[1].state

\* The builtins stepBack has no reverse for.
Irreversible == {n_Measure, n_MeasureBit, n_ExpModN, n_RevExpModN, n_VectorSize}

\* The state vector of a snapshot; <<>> when it holds no register.
VectorOf(snap) == IF snap.simulator = <<>> THEN <<>> ELSE snap.simulator[1].state

\* A step that executed a builtin without reverse was stepped back.
IrreversibleUndone == undo.phase = "undone" /\ RanBuiltin \in Irreversible

\* What stepBack over a builtin without reverse does to the register and to
\* the position: a warning, the vector as before the stepBack, execution
\* back at the opcode.
WarnedAndPositioned ==
  /\ \E e \in 1..Len(undo.mid.errors) :
        undo.mid.errors[e].msg \in {"Warning: this step has no reverse operation!",
                                    "Warning: measurement is normally not reversible!"}
  /\ VectorOf(undo.mid) = VectorOf(undo.post)
  /\ undo.mid.currentFunc = undo.pre.currentFunc
  /\ undo.mid.currentStep = undo.pre.currentStep

\* C14: stepBack over Measure, MeasureBit, ExpModN, RevExpModN or VectorSize
\* appends a warning and leaves the state vector as it was before the
\* stepBack, and restores currentFunc, currentStep and the variables the step
\* saved.
C14_IrreversibleStepBack ==
  IrreversibleUndone =>
    /\ WarnedAndPositioned
    /\ \A p \in WrittenCells(undo.pre, undo.post) :
          Get(undo.mid.window, p) = Get(undo.pre.window, p)

\* A collapsing measurement on the register was stepped back.
C14_MeasureBitUndone ==
  /\ IrreversibleUndone /\ RanBuiltin = n_MeasureBit
  /\ VectorOf(undo.post) # VectorOf(undo.pre)

\* A sequence of renders backwards, and a render with its phase negated.
ReverseSeq(rs) == [k \in 1..Len(rs) |-> rs[Len(rs) + 1 - k]]
NegatePhase(r) == IF r.shader = "cphase" THEN [r EXCEPT !.shift = FInv(@)] ELSE r
ReverseNegated(rs) == [k \in 1..Len(rs) |-> NegatePhase(ReverseSeq(rs)[k])]

\* A QFT or InvQFT the bound check let through ran on the register and was
\* stepped back.
TransformUndone ==
  /\ undo.phase = "undone"
  /\ RanBuiltin \in {n_QFT, n_InvQFT}
  /\ undo.pre.simulator # <<>>
  /\ ~OutOfRange(RanArgv[1], Q.vectorSize)

\* The window offset..offset+width-1 of the transform lies in the register.
WindowInside == RanArgv[1].n + RanArgv[2].n <= Q.vectorSize.n

L_xeq1 == <<"x", "=", "1">>
L_yx1 == <<"y", " ", "=", " ", "x", "+", "1">>
L_PrintOpen == <<"P", "r", "i", "n", "t", " ", "\"", "a", " ", "b">>
L_PrintStr == <<"P", "r", "i", "n", "t", " ", "\"", "a", "b", "\"">>
L_Print15 == <<"P", "r", "i", "n", "t", " ", "1", ".", "5">>

LexLines == {L_x1, L_xeq1, L_yx1, L_PrintOpen, L_PrintStr, L_Print15}

NextLex == Fresh /\ \E script \in ScriptsOver(LexLines) : Compile(script)

SpecLex == Init /\ [][NextLex]_vars

\* C16: every ID token of every line is a keyword, a builtin name or an
\* identifier, so its body begins with a letter or `_`; the digits and the
\* fraction of a numeric literal are never (part of) an ID token, whatever
\* precedes the literal.
C16_IdTokensAreIdentifiers ==
  Compiled =>
    \A n \in 1..Len(Q.text_) : \A k \in 1..Len(TokensOf(n)) :
       TokensOf(n)[k].type = ID => TokensOf(n)[k].body[1] \in Letters \cup {"_"}

\* A line with a numeric literal right after `=` was tokenized.
C16_LiteralAfterAssign ==
  Compiled /\ \E n \in 1..Len(Q.text_) : Q.text_[n] = L_xeq1

\* The number of `"` of a line before its comment is odd: its last string
\* literal is not closed.
Unterminated(line) ==
  Cardinality({i \in 1..(IndexOfComment(line) - 1) : line[i] = "\""}) % 2 = 1

\* C17: the compilation reports an error for every line that holds an
\* unterminated string literal.
C17_UnterminatedReported ==
  Compiled =>
    \A n \in 1..Len(Q.text_) :
       Unterminated(Q.text_[n]) => \E j \in 1..Len(Q.errors) : Q.errors[j].arg = n

\* A line with an unterminated string literal was compiled into an opcode.
C17_UnterminatedCompiled ==
  Compiled /\ \E n \in 1..Len(Q.text_) : Unterminated(Q.text_[n]) /\ EmittedOn(n)

\* The last step executed VectorSize n with a number n.
RanVectorSize ==
  undo.phase = "ran" /\ RanBuiltin = n_VectorSize /\ RanArgv[1].t = "number"
\* n is a size init() is specified to accept: even, from 6 to 22.
ValidSize(n) == n >= 6 /\ n <= 22 /\ n % 2 = 0

\* C18: VectorSize n with n < 6, n > 22 or n odd adds an error and leaves
\* vectorSize and the simulator (or its absence) as they were; VectorSize
\* with a valid n installs a fresh register of n qubits in state |0> and sets
\* vectorSize to n.
C18_VectorSizeValidated ==
  RanVectorSize =>
    IF ValidSize(RanArgv[1].n)
    THEN /\ undo.post.vectorSize = RanArgv[1]
         /\ undo.post.simulator # <<>>
         /\ undo.post.simulator[1].size = RanArgv[1]
         /\ undo.post.simulator[1].applied = <<>>
         /\ undo.post.simulator[1].state =
              [i \in 0..(2^RanArgv[1].n - 1) |-> IF i = 0 THEN 1 ELSE 0]
    ELSE /\ \E e \in 1..Len(undo.post.errors) :
               undo.post.errors[e].msg
                 = "State vector size outside of supported range 6..22 or not even: "
         /\ undo.post.vectorSize = undo.pre.vectorSize
         /\ undo.post.simulator = undo.pre.simulator

\* An odd size was refused on a page that has a register, and a valid size
\* replaced a register whose vector had changed.
C18_OddSizeRefused ==
  RanVectorSize /\ RanArgv[1].n % 2 = 1 /\ RanArgv[1].n >= 6
C18_RegisterReplaced ==
  /\ RanVectorSize /\ ValidSize(RanArgv[1].n)
  /\ undo.pre.simulator # <<>>
  /\ undo.pre.simulator # undo.post.simulator


\* ------------------------------------------------------------------------
\* The run delay
\* ------------------------------------------------------------------------
\* A value within [1, 10000].
DelayInRange(v) == v.t = "number" /\ v.n >= 1 /\ v.n <= 10000

\* The opcode at the position of execution calls the builtin Delay.
AtDelay ==
  /\ ~Fresh
  /\ AtOpcode
  /\ CurrentCode(World)[Step(World) + 1].command = "builtin"
  /\ getBuiltins[CurrentCode(World)[Step(World) + 1].ref].name = n_Delay

\* The value the Delay at the position of execution is called with.
DelayArgument == evalArgs(World, CurrentCode(World)[Step(World) + 1].args, 1).argv[1]

\* The step executed exactly the opcode at the position of execution.
OneOpcodeRan ==
  /\ compiler_' # <<>>
  /\ Len(compiler_'[1].history_) = Len(QS(World).history_) + 1

\* A Delay callback with a value in range sets the run delay to it; with any
\* other value it leaves the run delay alone and clears run mode.
DelayLaw ==
  AtDelay /\ OneOpcodeRan =>
    IF DelayInRange(DelayArgument) THEN runDelay_' = DelayArgument
    ELSE runDelay_' = runDelay_ /\ ~runmode_'

\* C19: the run delay is always within [1, 10000] ms; a Delay callback with
\* a value in that range sets the run delay to it, and a Delay callback with
\* any other value leaves the run delay unchanged and clears run mode.
C19_RunDelayInRange == [](DelayInRange(runDelay_)) /\ [][DelayLaw]_vars

\* A Delay callback has changed the run delay.
C19_DelayCallbackRan == ~Fresh /\ runDelay_ # Num(DEFAULT_RUN_DELAY)


\* ------------------------------------------------------------------------
\* Breakpoints and the run loop
\* ------------------------------------------------------------------------
\* The opcodes executed so far.
Executed(w) == Len(QS(w).history_)

\* Execution is positioned on a line that has a breakpoint.
OnBreakpoint(w) ==
  /\ ~w.thrown
  /\ Len(CurrentCode(w)) > 0
  /\ getCurrentLine(QS(w)) \in w.gutterMarkers

\* The runSteps of a tick from w, k of them left, where the tick is known to
\* have executed `executed` opcodes in all and to have left run mode
\* `running`: a runStep the tick made (it had opcodes left to execute) that
\* lands on a breakpoint is the last to execute an opcode, and run mode is
\* off after the tick.
RECURSIVE LandingsStop(_, _, _, _, _)
LandingsStop(w, k, rnd, executed, running) ==
  \/ k = 0
  \/ executed <= Executed(w)
  \/ LET Landed(v) ==
           /\ OnBreakpoint(v) => executed = Executed(v) /\ ~running
           /\ v.thrown \/ LandingsStop(v, k - 1, rnd, executed, running)
     IN Landed(runStep(w, rnd))

\* A timer tick executes at most 20 opcodes, and none when run mode is off;
\* when one of its runSteps lands on a breakpoint the tick executes nothing
\* more and run mode is off after it.
TickLaw ==
  undo'.phase = "tick" =>
    /\ undo'.post.history_ - undo'.pre.history_ <= 20
    /\ ~runmode_ => undo'.post.history_ = undo'.pre.history_ /\ ~runmode_'
    /\ LandingsStop(World, 20, undo'.rnd, undo'.post.history_, runmode_')

\* Run mode is switched on by the run button only.
RunLaw == ~runmode_ /\ runmode_' => undo'.phase = "run"

\* C20: in run mode each timer tick executes at most 20 runSteps, and as
\* soon as a step leaves execution positioned on a line that has a
\* breakpoint, run mode is cleared and no further opcode is executed in that
\* tick or by any later timer tick until the user issues run or a step
\* command again.
C20_BreakpointStopsRun == [][TickLaw /\ RunLaw]_vars

\* A tick has executed opcodes and stopped on a breakpoint before the end of
\* the program, with another timer still pending.
C20_StoppedOnBreakpoint ==
  /\ undo.phase = "tick"
  /\ undo.post.history_ > undo.pre.history_ + 1
  /\ OnBreakpoint(World)
  /\ ~isDone(QS(World))
  /\ ~runmode_
  /\ timers > 0


\* ------------------------------------------------------------------------
\* QMath: the functions called with every argument of a bounded range.
\* ------------------------------------------------------------------------
\* What the last call returned.
Called(name, args, result) ==
  [phase |-> name, pre |-> NoSnapshot, post |-> NoSnapshot, mid |-> NoSnapshot,
   again |-> NoSnapshot, args |-> args, result |-> result]

PageUnchanged ==
  UNCHANGED <<compiler_, window, thrown, output, runmode_, runDelay_, overlayHtml,
              timers, cursor, callstack, locals, gutterMarkers>>

\* QMath.expModN(x, k, N)
CallExpModN(x, k, N) ==
  /\ undo' = Called("expModN", <<x, k, N>>, expModN(x, k, N))
  /\ PageUnchanged

\* QMath.getWidth(n)
CallGetWidth(n) ==
  /\ undo' = Called("getWidth", <<n>>, getWidth(n))
  /\ PageUnchanged

NextMath ==
  \/ \E x \in 0..MaxArg, k \in 0..MaxArg, N \in 1..MaxArg : CallExpModN(x, k, N)
  \/ \E n \in 1..(2^MaxArg + 1) : CallGetWidth(n)

SpecMath == Init /\ [][NextMath]_vars

\* The number of binary digits of k.
RECURSIVE BitLength(_)
BitLength(k) == IF k = 0 THEN 0 ELSE 1 + BitLength(k \div 2)

\* x to the power k, on whole numbers (1 for k = 0).
RECURSIVE Power(_, _)
Power(x, k) == IF k = 0 THEN 1 ELSE x * Power(x, k - 1)

\* C22: QMath.expModN(x,k,N) returns x^k mod N for all integers x >= 0,
\* k >= 0 and N >= 1 of a bounded range, and its loop terminates after at
\* most bit-length(k) iterations.
C22_ExpModNIsPowerMod ==
  undo.phase = "expModN" =>
    /\ undo.result = Power(undo.args[1], undo.args[2]) % undo.args[3]
    /\ expModNIterations(undo.args[2]) <= BitLength(undo.args[2])

\* expModN was called with exponent 0 and modulus 1.
C22_ModulusOne == undo.phase = "expModN" /\ undo.args[2] = 0 /\ undo.args[3] = 1

\* C23: QMath.getWidth(n) returns the smallest integer i with 2^i >= n, for
\* every integer n >= 1 of a bounded range.
C23_WidthIsSmallest ==
  undo.phase = "getWidth" =>
    /\ 2^undo.result >= undo.args[1]
    /\ \A i \in 0..(undo.result - 1) : 2^i < undo.args[1]

\* C23 amended: QMath.getWidth(n) returns the smallest integer i >= 1 with
\* 2^i >= n, for every integer n >= 1 of a bounded range.
C23_WidthIsSmallestPositive ==
  undo.phase = "getWidth" =>
    /\ undo.result >= 1
    /\ 2^undo.result >= undo.args[1]
    /\ \A i \in 1..(undo.result - 1) : 2^i < undo.args[1]

\* getWidth was called with a power of two above 2, and with 1.
C23_PowerOfTwo == undo.phase = "getWidth" /\ undo.args[1] = 2^undo.result /\ undo.result > 1


\* ------------------------------------------------------------------------
\* Measure
\* ------------------------------------------------------------------------
\* Amplitudes of probability 0, 1, 1 and 2.
Amplitudes == {<<0, 0>>, <<1, 0>>, <<0, -1>>, <<1, 1>>}

\* The vectors getState() hands to applyMeasure().
Vectors == [1..(MaxBasis + 1) -> Amplitudes]

\* simulator.applyMeasure() on a vector, Math.random() returning
\* draw / MaxArg.
CallMeasure(state, draw) ==
  /\ undo' = Called("applyMeasure", <<state, draw>>, applyMeasure(state, draw, MaxArg))
  /\ PageUnchanged

NextMeasure ==
  \/ NextGates
  \/ Fresh /\ undo = NoUndo
     /\ \E state \in Vectors, draw \in 0..(MaxArg - 1) : CallMeasure(state, draw)

SpecMeasure == Init /\ [][NextMeasure]_vars

\* The cumulative probability of the basis states 0..i of a vector.
Cumulative(state, i) == NormFrom(state, 1) - NormFrom(state, i + 2)

\* applyMeasure() has returned.
Measured == undo.phase = "applyMeasure"

\* A Measure step of a program has run on a register.
MeasureRan ==
  /\ undo.phase = "ran"
  /\ RanBuiltin = n_Measure
  /\ undo.pre.simulator # <<>>

ExpModNRan ==
  /\ undo.phase = "ran"
  /\ RanBuiltin = n_ExpModN
  /\ undo.pre.simulator # <<>>
  /\ undo.post.errors = <<>>
  /\ WholeArgs(RanArgv[1], RanArgv[2], RanArgv[3])

\* The index the amplitude of basis state i is to go to.
Relabel(i) == (Power(RanArgv[1].n, i) % RanArgv[2].n) * 2^RanArgv[3].n + i

\* The basis states ExpModN reads.
Relabelled0 == 0..(2^RanArgv[3].n - 1)

\* The new vector holds every amplitude the old one had on the basis states
\* read, at its new index.
RelabelKeeps ==
  \A i \in Relabelled0 :
    /\ Relabel(i) \in DOMAIN VectorOf(undo.post)
    /\ VectorOf(undo.post)[Relabel(i)] = VectorOf(undo.pre)[i]

\* C24: ExpModN(x,N,w) is a relabelling of basis states: for every i in
\* 0..2^w-1 the new amplitude at index ((x^i mod N) << w) + i equals the old
\* amplitude V[i], distinct i map to distinct indices, and every other
\* amplitude of the new vector is zero.
C24_ExpModNRelabels ==
  ExpModNRan =>
    /\ RelabelKeeps
    /\ \A i, j \in Relabelled0 : i # j => Relabel(i) # Relabel(j)
    /\ \A k \in DOMAIN VectorOf(undo.post) :
         k \notin {Relabel(i) : i \in Relabelled0} => VectorOf(undo.post)[k] = 0

\* ExpModN ran on a register with more than one amplitude to move.
C24_ExpModNOnSuperposition ==
  /\ ExpModNRan
  /\ \E i, j \in Relabelled0 : i # j /\ VectorOf(undo.pre)[i] # 0 /\ VectorOf(undo.pre)[j] # 0


\* ------------------------------------------------------------------------
\* Control flow: programs of if blocks, loops and calls, run forward.
\* ------------------------------------------------------------------------
L_for3 == <<"f", "o", "r", " ", "i", " ", "=", " ", "0", ";", " ", "i", " ", "<", " ", "3", ";", " ", "i", " ", "=", " ", "i", " ", "+", " ", "1">>
L_for0 == <<"f", "o", "r", " ", "i", " ", "=", " ", "3", ";", " ", "i", " ", "<", " ", "3", ";", " ", "i", " ", "=", " ", "i", " ", "+", " ", "1">>
L_for1 == <<"f", "o", "r", " ", "i", " ", "=", " ", "0", ";", " ", "i", " ", "<", " ", "1", ";", " ", "i", " ", "=", " ", "i", " ", "+", " ", "1">>
L_yi == <<"y", " ", "=", " ", "i">>
L_ifi == <<"i", "f", " ", "i">>
L_return == <<"r", "e", "t", "u", "r", "n">>
L_procg == <<"p", "r", "o", "c", " ", "g">>
L_g == <<"g">>
L_forj1 == <<"f", "o", "r", " ", "j", " ", "=", " ", "0", ";", " ", "j", " ", "<", " ", "1", ";", " ", "j", " ", "=", " ", "j", " ", "+", " ", "1">>
L_for2 == <<"f", "o", "r", " ", "i", " ", "=", " ", "0", ";", " ", "i", " ", "<", " ", "2", ";", " ", "i", " ", "=", " ", "i", " ", "+", " ", "1">>
L_x3 == <<"x", " ", "=", " ", "3">>
L_ifxside == <<"i", "f", " ", "x", ";", " ", "x", " ", "=", " ", "1">>
L_ify == <<"i", "f", " ", "y">>

ControlScripts ==
  { <<L_ifx, L_x1, L_else, L_x2, L_endif, L_x3>>,
    <<L_ifx, L_x1, L_endif, L_x2>>,
    <<L_x1, L_ifx, L_x2, L_else, L_x3, L_endif, L_x0>>,
    <<L_ifx, L_ify, L_x1, L_else, L_x2, L_endif, L_else, L_x3, L_endif, L_x0>>,
    <<L_x0, L_ifxside, L_x2>>,
    <<L_x1, L_ifxside, L_x3>>,
    <<L_procf, L_ifx, L_x1, L_endif, L_endproc, L_f, L_x2>>,
    <<L_procf, L_x2, L_ifxside, L_endproc, L_x0, L_f, L_x3>>,
    <<L_for3, L_yi, L_endfor, L_x1>>,
    <<L_for0, L_yi, L_endfor, L_x1>>,
    <<L_procf, L_for1, L_yi, L_endfor, L_endproc, L_f, L_x2>>,
    <<L_for3, L_ifi, L_break, L_endif, L_endfor, L_x1>>,
    <<L_for1, L_forj1, L_break, L_endfor, L_x1, L_endfor, L_x2>>,
    <<L_for2, L_ifi, L_continue, L_endif, L_yi, L_endfor, L_x1>>,
    <<L_for1, L_forj1, L_continue, L_endfor, L_x1, L_endfor, L_x2>>,
    <<L_procf, L_for1, L_break, L_endfor, L_endproc, L_f, L_x2>>,
    <<L_procf, L_x1, L_endproc, L_procg, L_f, L_x2, L_endproc, L_g, L_x3>>,
    <<L_procf, L_return, L_x1, L_endproc, L_f, L_x2>>,
    <<L_procf, L_x1, L_endproc, L_procg, L_f, L_endproc, L_g, L_x3>>,
    <<L_procf, L_endproc, L_f, L_x1>>,
    <<L_procf, L_ifx, L_x1, L_else, L_return, L_endif, L_x2, L_endproc, L_procg, L_f, L_x2, L_endproc,
      L_g, L_x3>> }

NextControl ==
  \/ Fresh /\ \E script \in ControlScripts : Compile(script)
  \/ \E rnd \in Outcomes : RunStep(rnd)

SpecControl == Init /\ [][NextControl]_vars

\* The code of the function the opcode that ran is in, and its index there.
RanCode == Q.funcs[undo.pre.currentFunc].code
RanStep == undo.pre.currentStep

\* Execution is at opcode `step` of the function the opcode ran in, or back in
\* the caller when `step` is past the end of a called function.
LandsAt(step) ==
  IF step >= Len(RanCode) /\ undo.pre.callStack # <<>>
  THEN /\ undo.post.currentFunc = undo.pre.callStack[Len(undo.pre.callStack)][1]
       /\ undo.post.currentStep = undo.pre.callStack[Len(undo.pre.callStack)][2]
  ELSE undo.post.currentFunc = undo.pre.currentFunc /\ undo.post.currentStep = step

\* The index of the ELSE or ENDIF that matches a block `if`, searched from
\* index j at nesting depth `depth`; -1 when the block is not closed.
RECURSIVE MatchingElse(_, _, _)
MatchingElse(code, j, depth) ==
  IF j >= Len(code) THEN -1
  ELSE IF code[j + 1].command = IF_CMD /\ Len(code[j + 1].args) = 1
  THEN MatchingElse(code, j + 1, depth + 1)
  ELSE IF code[j + 1].command = ENDIF
  THEN (IF depth = 0 THEN j ELSE MatchingElse(code, j + 1, depth - 1))
  ELSE IF code[j + 1].command = ELSE_CMD /\ depth = 0 THEN j
  ELSE MatchingElse(code, j + 1, depth)

\* An IF opcode ran and its condition was false.
IfFalseRan ==
  /\ undo.phase = "ran"
  /\ RanOp.command = IF_CMD
  /\ ~Truthy(executeExpression(PreWorld, RanOp.args[1], <<>>).v)

\* Execution went forward from the opcode that ran.
WentForward ==
  \/ undo.post.currentFunc = undo.pre.currentFunc /\ undo.post.currentStep > RanStep
  \/ LandsAt(Len(RanCode))

\* C25: when the condition of an IF opcode evaluates false, runStep moves
\* execution forward to the opcode immediately after the matching ELSE, or
\* after the matching ENDIF when there is no ELSE, for the form `if cond` and
\* the form `if cond; side`, and the new currentStep is always greater than
\* the IF's own index.
C25_FalseIfSkipsBlock ==
  IfFalseRan =>
    /\ WentForward
    /\ Len(RanOp.args) = 1 /\ MatchingElse(RanCode, RanStep + 1, 0) >= 0
       => LandsAt(MatchingElse(RanCode, RanStep + 1, 0) + 1)

\* A false `if` skipped a block that holds an inner if and else.
C25_SkippedNestedBlock ==
  /\ IfFalseRan
  /\ Len(RanOp.args) = 1
  /\ MatchingElse(RanCode, RanStep + 1, 0) > RanStep + 3


\* The index of the FOR_END that closes a loop with its endfor, searched from
\* index j at nesting depth `depth`; -1 when the loop is not closed.
RECURSIVE MatchingEndfor(_, _, _)
MatchingEndfor(code, j, depth) ==
  IF j >= Len(code) THEN -1
  ELSE IF code[j + 1].command = FOR_INIT /\ Len(code[j + 1].args) = 2
  THEN MatchingEndfor(code, j + 1, depth + 1)
  ELSE IF code[j + 1].command = FOR_END /\ EmittedFor(code[j + 1], kw_endfor)
  THEN (IF depth = 0 THEN j ELSE MatchingEndfor(code, j + 1, depth - 1))
  ELSE MatchingEndfor(code, j + 1, depth)

\* An opcode of a block loop ran.
ForRan(command) ==
  /\ undo.phase = "ran"
  /\ RanOp.command = command
  /\ IF command = FOR_END THEN EmittedFor(RanOp, kw_endfor) ELSE Len(RanOp.args) = 2

\* The window and the value after `first` and then `second` are evaluated
\* from the state before the step.
EvaluatedInOrder(first, second) ==
  executeExpression(executeExpression(PreWorld, first, <<>>).w, second, <<>>)

\* After FOR_INIT or FOR_LOOP: the expressions were evaluated in order, and
\* execution is in the body at `body` when the condition held, after the
\* FOR_END of the loop when it did not.
LoopDecided(first, cond, body) ==
  /\ undo.post.window = EvaluatedInOrder(first, cond).w.window
  /\ IF Truthy(EvaluatedInOrder(first, cond).v) THEN LandsAt(body)
     ELSE LandsAt(MatchingEndfor(RanCode, body, 0) + 1)

\* The loop of the claim: for i = 0; i < 3; i = i + 1 / y = i / endfor, and
\* the indices of the opcodes its execution goes through, in order.
ExampleLoop == <<L_for3, L_yi, L_endfor, L_x1>>
ExampleTrace == <<0, 2, 3, 1, 2, 3, 1, 2, 3, 1, 4, 5>>

\* The value of the variable `name` of the main program.
MainCell(win, name) == win[MAIN_NAME \o <<"_">> \o name]

\* The bodies executed so far.
Bodies == Cardinality({h \in 1..Len(Q.history_) : Q.history_[h].step = 2})

\* C26: for a loop `for init; cond; step` ... `endfor` without break or
\* continue, init is evaluated exactly once, cond before every iteration,
\* step after each body execution and before the next evaluation of cond;
\* the body runs once per consecutive true evaluation of cond (with i = 0,
\* 1, 2 in that order for init i = 0, cond i < 3, step i = i + 1), and on a
\* false cond execution continues at the opcode after FOR_END.
C26_ForLoopOrder ==
  /\ ForRan(FOR_INIT) => LoopDecided(RanOp.args[1], RanOp.args[2], RanStep + 2)
  /\ ForRan(FOR_LOOP) => LoopDecided(RanOp.args[2], RanOp.args[1], RanStep + 1)
  /\ ForRan(FOR_END) =>
       /\ undo.post.window = undo.pre.window
       /\ undo.post.currentFunc = undo.pre.currentFunc
       /\ RanCode[undo.post.currentStep + 1].command = FOR_LOOP
       /\ MatchingEndfor(RanCode, undo.post.currentStep + 1, 0) = RanStep
  /\ Compiled /\ Q.text_ = ExampleLoop =>
       /\ Len(Q.history_) < Len(ExampleTrace)
       /\ \A h \in 1..Len(Q.history_) : Q.history_[h].step = ExampleTrace[h]
       /\ Q.currentStep = ExampleTrace[Len(Q.history_) + 1]
       /\ undo.phase = "ran" /\ RanStep = 2 => MainCell(undo.post.window, <<"y">>) = Num(Bodies - 1)

\* The loop of the claim has run to its end: three bodies, and execution at
\* the opcode after FOR_END.
C26_LoopLeft ==
  /\ Compiled /\ Q.text_ = ExampleLoop
  /\ Bodies = 3
  /\ Q.currentStep = 4
  /\ MainCell(window, <<"i">>) = Num(3)


\* A BREAK opcode ran, inside a loop closed by endfor.
BreakRan ==
  /\ undo.phase = "ran"
  /\ RanOp.command = BREAK
  /\ MatchingEndfor(RanCode, RanStep + 1, 0) >= 0

\* The opcode emitted for `continue` ran, inside a loop closed by endfor.
ContinueRan ==
  /\ undo.phase = "ran"
  /\ RanOp.command = FOR_END
  /\ EmittedFor(RanOp, kw_continue)
  /\ MatchingEndfor(RanCode, RanStep + 1, 0) >= 0

\* The indices of the FOR_LOOP opcodes of the block loops around index k that
\* the same endfor closes: the FOR_LOOP of the innermost loop around k.
InnermostLoop(code, k) ==
  {p \in 0..(k - 1) :
     /\ code[p + 1].command = FOR_LOOP
     /\ Len(code[p + 1].args) = 2
     /\ MatchingEndfor(code, p + 1, 0) = MatchingEndfor(code, k + 1, 0)}

\* C27: executing BREAK inside a loop closed by `endfor` sets currentStep to
\* the index of that loop's FOR_END plus one, for the innermost enclosing
\* loop and at any nesting depth of `if` blocks; executing the opcode
\* emitted for `continue` transfers to that loop's FOR_LOOP, so the step
\* expression and the condition are evaluated before the next iteration.
C27_BreakLeavesInnermostLoop ==
  /\ BreakRan => LandsAt(MatchingEndfor(RanCode, RanStep + 1, 0) + 1)
  /\ ContinueRan =>
       /\ undo.post.currentFunc = undo.pre.currentFunc
       /\ InnermostLoop(RanCode, RanStep) = {undo.post.currentStep}
       /\ undo.post.window = undo.pre.window

\* A break inside an if block of a loop ran, and a break of an inner loop.
C27_BrokeOutOfInnerLoop ==
  /\ BreakRan
  /\ MatchingEndfor(RanCode, RanStep + 1, 0) + 1 < Len(RanCode) - 1
  /\ Cardinality({p \in 0..RanStep : RanCode[p + 1].command = FOR_LOOP}) = 2


\* A call of a proc of the program ran.
CallRan == undo.phase = "ran" /\ RanOp.command = "func"

\* An opcode other than a call ran inside a called proc.
RanInCall == undo.phase = "ran" /\ RanOp.command # "func" /\ undo.pre.callStack # <<>>

\* The frame on top of the call stack before the step.
TopFrame == undo.pre.callStack[Len(undo.pre.callStack)]

\* The frame was popped and execution is where it says.
Returned ==
  /\ undo.post.callStack = SubSeq(undo.pre.callStack, 1, Len(undo.pre.callStack) - 1)
  /\ undo.post.currentFunc = TopFrame[1]
  /\ undo.post.currentStep = TopFrame[2]

\* C28: a user-proc call pushes one frame {caller, caller_step+1} and enters
\* the callee at opcode 0; when the callee runs past its last opcode or
\* executes RETURN, that frame is popped and execution resumes in the caller
\* at the opcode immediately after the call; frames are popped in
\* last-in-first-out order and the call stack is empty when isDone() becomes
\* true.
C28_CallReturnPairing ==
  /\ CallRan /\ Len(Q.funcs[RanOp.ref].code) > 0 =>
       /\ Len(undo.post.callStack) = Len(undo.pre.callStack) + 1
       /\ SubSeq(undo.post.callStack, 1, Len(undo.pre.callStack)) = undo.pre.callStack
       /\ undo.post.callStack[Len(undo.post.callStack)][1] = undo.pre.currentFunc
       /\ undo.post.callStack[Len(undo.post.callStack)][2] = RanStep + 1
       /\ undo.post.currentFunc = RanOp.ref
       /\ undo.post.currentStep = 0
  /\ CallRan /\ Len(Q.funcs[RanOp.ref].code) = 0 =>
       /\ undo.post.callStack = undo.pre.callStack
       /\ undo.post.currentFunc = undo.pre.currentFunc
       /\ undo.post.currentStep = RanStep + 1
  /\ RanInCall =>
       \/ Returned
       \/ /\ undo.post.callStack = undo.pre.callStack
          /\ undo.post.currentFunc = undo.pre.currentFunc
          /\ undo.post.currentStep < Len(RanCode)
          /\ RanOp.command # RETURN
  /\ Compiled =>
       /\ \A k \in 1..Len(Q.callStack) :
            Q.funcs[Q.callStack[k][1]].code[Q.callStack[k][2]].command = "func"
       /\ isDone(Q) => Q.callStack = <<>>

\* A RETURN inside a proc called from a proc came back to the caller.
C28_ReturnedFromNestedCall ==
  /\ RanInCall
  /\ RanOp.command = RETURN
  /\ Len(undo.pre.callStack) = 2
  /\ Returned


\* ------------------------------------------------------------------------
\* The reverse-gate table
\* ------------------------------------------------------------------------
\* The gate the table names for a gate, and the arguments it gives it.
TableGate(name) ==
  CASE name = n_QFTCPhase -> n_InvQFTCPhase
    [] name = n_InvQFTCPhase -> n_QFTCPhase
    [] name = n_QFT -> n_InvQFT
    [] name = n_InvQFT -> n_QFT
    [] name = n_ShiftLeft -> n_ShiftRight
    [] name = n_ShiftRight -> n_ShiftLeft
    [] OTHER -> name
TableArgs(name, argv) ==
  CASE name \in {n_Phase, n_Rx, n_Ry, n_Rz} -> <<argv[1], JsNeg(argv[2])>>
    [] name = n_CPhase -> <<argv[1], argv[2], JsNeg(argv[3])>>
    [] OTHER -> argv

\* The register after the gate of the table is applied to the register the
\* step left.
TableApplied ==
  execute([PreWorld EXCEPT !.compiler_[1].simulator = undo.post.simulator],
          TableGate(RanBuiltin), TableArgs(RanBuiltin, RanArgv), 0).compiler_[1].simulator

\* C29: on stepBack over a builtin step, the operation applied to the
\* simulator is Phase(b,-phi) for Phase(b,phi), CPhase(c,t,-phi) for
\* CPhase(c,t,phi), the same gate with -theta for Rx/Ry/Rz, InvQFTCPhase for
\* QFTCPhase and vice versa, InvQFT for QFT and vice versa, ShiftRight for
\* ShiftLeft and vice versa, and the identical gate with identical arguments
\* for Hadamard, SigmaX/Y/Z, CNot, Swap, Toffoli and Unitary.
C29_ReverseGateApplied == GateUndone => undo.mid.simulator = TableApplied

\* A rotation was stepped back, and its reverse rendered on the register.
C29_RotationUndone ==
  /\ GateUndone
  /\ RanBuiltin = n_Rx
  /\ undo.mid.simulator[1].applied # <<>>
  /\ undo.mid.simulator[1].state # undo.post.simulator[1].state


\* ------------------------------------------------------------------------
\* getCurrentLine
\* ------------------------------------------------------------------------
\* The index of the opcode whose line getCurrentLine() reads (from 1).
LineRead(q) ==
  IF q.currentStep >= Len(q.funcs[q.currentFunc].code)
  THEN Len(q.funcs[q.currentFunc].code)
  ELSE q.currentStep + 1

\* C30: in every reachable engine state, for every compiled program including
\* one that produces no opcodes, getCurrentLine() returns normally with the
\* source line of the opcode at currentStep, or with the line of the last
\* opcode of currentFunc when currentStep is past the end.
C30_CurrentLineReturns == Compiled => LineRead(Q) \in DOMAIN CurrentCode(World)

\* The program without opcodes was stepped, and the step threw on the line
\* of an opcode that is not there.
C30_NoOpcodeStepThrew ==
  /\ Compiled
  /\ Q.text_ = <<>>
  /\ Q.errors = <<>>
  /\ Len(Q.funcs[Q.main].code) = 0
  /\ thrown


\* ------------------------------------------------------------------------
\* Block words without an open block
\* ------------------------------------------------------------------------
\* The blocks open in one function while its lines compile.
NoBlocks == [fors |-> 0, ifs |-> 0]

\* The open blocks of the functions being compiled when line k (from 1) of the
\* text is reached, innermost function last; <<>> when compilation has ended
\* before that line.  frames are the open blocks before line i.
RECURSIVE OpenBlocks(_, _, _, _)
OpenBlocks(text, k, i, frames) ==
  IF frames = <<>> \/ i = k THEN frames
  ELSE LET n == Len(frames)
           Walk(t) ==
             IF t = <<Token(ID, kw_endproc)>> THEN Pop(frames)
             ELSE IF t = <<Token(ID, kw_endfor)>>
             THEN [frames EXCEPT ![n].fors = IF @ > 0 THEN @ - 1 ELSE 0]
             ELSE IF t = <<Token(ID, kw_endif)>>
             THEN [frames EXCEPT ![n].ifs = IF @ > 0 THEN @ - 1 ELSE 0]
             ELSE IF Len(t) < 2 \/ t[1].type # ID THEN frames
             ELSE IF t[1].body = kw_for /\ Len(parseExpressions(t, 1)) = 3
             THEN [frames EXCEPT ![n].fors = @ + 1]
             ELSE IF t[1].body = kw_if /\ Len(parseExpressions(t, 1)) = 1
             THEN [frames EXCEPT ![n].ifs = @ + 1]
             ELSE IF t[1].body = kw_proc /\ t[2].type = ID THEN Append(frames, NoBlocks)
             ELSE frames
       IN OpenBlocks(text, k, i + 1, Walk(tokenize(trim(text[i]))))

\* Line k of the text is a block word and the function being compiled has no
\* block open for it.
Unmatched(text, k) ==
  LET Is(t, frames) ==
        /\ frames # <<>>
        /\ \/ t \in {<<Token(ID, kw_endfor)>>, <<Token(ID, kw_continue)>>,
                     <<Token(ID, kw_break)>>} /\ Top(frames).fors = 0
           \/ t \in {<<Token(ID, kw_else)>>, <<Token(ID, kw_endif)>>} /\ Top(frames).ifs = 0
  IN Is(tokenize(trim(text[k])), OpenBlocks(text, k, 1, <<NoBlocks>>))

\* The errors that do not name line k.
ErrorsElsewhere(errors, k) == SelectSeq(errors, LAMBDA e : e.arg # k)

\* The compiled program is the program of the same text with line k left
\* empty, but for one error naming line k.
SkippedWithError(k) ==
  LET Same(c2) ==
        /\ Q.funcs = c2.funcs
        /\ ErrorsElsewhere(Q.errors, k) = c2.errors
        /\ Cardinality({e \in 1..Len(Q.errors) : Q.errors[e].arg = k}) = 1
        /\ \A f \in Functions : \A j \in Indices(f) : OpAt(f, j).line # k
  IN Same(compileFunction([Q.text_ EXCEPT ![k] = <<>>], <<>>))

\* C31: an `endfor`, `continue` or `break` with no open `for`, and an `else`
\* or `endif` with no open `if`, in the function being compiled adds exactly
\* one error naming the line, emits no opcode, leaves the fix-up stacks
\* unchanged, and compilation continues with the next line.
C31_UnmatchedWordSkipped ==
  Compiled => \A k \in 1..Len(Q.text_) : Unmatched(Q.text_, k) => SkippedWithError(k)

\* A block word without its block was met inside a proc written inside such
\* a block, and lines after it were compiled.
C31_UnmatchedInsideProc ==
  /\ Compiled
  /\ \E k \in 1..Len(Q.text_) :
        /\ Unmatched(Q.text_, k)
        /\ Len(OpenBlocks(Q.text_, k, 1, <<NoBlocks>>)) = 2
        /\ OpenBlocks(Q.text_, k, 1, <<NoBlocks>>)[1] # NoBlocks
        /\ \E f \in Functions : \E j \in Indices(f) : OpAt(f, j).line > k


\* ------------------------------------------------------------------------
\* stepBack and the call stack
\* ------------------------------------------------------------------------
\* C32: stepBack restores the call stack: after a runStep that executed an
\* opcode (in particular a user-proc call, a RETURN, or the last opcode of a
\* callee) followed by stepBack, the call stack equals the call stack before
\* that runStep, so running forward again from there visits the same opcodes
\* in the same order as the original execution.
C32_StepBackRestoresCallStack ==
  /\ undo.phase \in {"undone", "redone"} => undo.mid.callStack = undo.pre.callStack
  /\ undo.phase = "redone" =>
       /\ undo.again.currentFunc = undo.post.currentFunc
       /\ undo.again.currentStep = undo.post.currentStep
       /\ undo.again.callStack = undo.post.callStack

\* The call of a script function was stepped back and its frame is still on
\* the call stack.
C32_FrameLeftAfterStepBack ==
  /\ undo.phase = "undone"
  /\ RanOp.command = "func"
  /\ undo.mid.callStack = undo.post.callStack
  /\ Len(undo.mid.callStack) = Len(undo.pre.callStack) + 1


\* ------------------------------------------------------------------------
\* The position of execution under runStep and stepBack
\* ------------------------------------------------------------------------
L_for1side == <<"f", "o", "r", " ", "i", "=", "0", ";", " ", "i", "<", "1", ";", " ", "i", "=", "i", "+", "1", ";", " ", "y", "=", "i">>

\* Programs that leave a block open, or end on the line that opens one.
OpenBlockScripts ==
  { <<L_x0, L_ifx, L_x1>>,
    <<L_x0, L_ifx, L_else, L_x1>>,
    <<L_x1, L_ifx, L_else, L_x2>>,
    <<L_x0, L_ifxside>>,
    <<L_for1>>,
    <<L_for0>>,
    <<L_for1, L_yi>>,
    <<L_for0, L_x1>>,
    <<L_for1, L_break>>,
    <<L_for1, L_continue>>,
    <<L_for1side>>,
    <<L_procf, L_for1, L_break, L_endproc, L_f, L_x1>>,
    <<L_procf, L_ifx, L_endproc, L_x0, L_f, L_x1>> }

L_fbump == <<"f", " ", "x", " ", "=", " ", "x", " ", "+", " ", "1">>
L_a1 == <<"a", " ", "=", " ", "1">>
L_f2 == <<"f", " ", "2">>
L_ya == <<"y", " ", "=", " ", "a">>
L_fa == <<"f", " ", "a">>

\* Calls of a proc with a parameter: an argument that assigns, a caller
\* variable with the name of the parameter, and a parameter of its own.
ArgumentScripts ==
  { <<L_procfa, L_endproc, L_x0, L_fbump, L_x3>>,
    <<L_procfa, L_endproc, L_a1, L_f2, L_ya>>,
    <<L_procfa, L_ya, L_endproc, L_x1, L_f2, L_fa>>,
    <<L_procg, L_procfa, L_endproc, L_f2, L_endproc, L_a1, L_g, L_ya>> }

NextSteps ==
  \/ Fresh /\ \E script \in ControlScripts \cup OpenBlockScripts \cup ArgumentScripts :
                 Compile(script)
  \/ \E rnd \in Outcomes : RunStep(rnd)
  \/ \E rnd \in Outcomes : StepBack(rnd)

SpecSteps == Init /\ [][NextSteps]_vars

\* An index from 0 up to the number of opcodes of function f.
InCode(f, step) == f \in Functions /\ step \in 0..Len(Q.funcs[f].code)

\* C33: in every state reachable by any interleaving of runStep and stepBack,
\* for any compiled program (including programs with unclosed `for`/`if`
\* blocks), 0 <= currentStep <= length of currentFunc.code, and every return
\* index stored in a call-stack frame is within 0..length of that frame's
\* function code; the interpreter never reads an opcode outside the current
\* function's opcode list: the opcode a BREAK looks up and the opcode
\* stepBack goes back to are opcodes of the function.
C33_PositionInsideCode ==
  Compiled =>
    /\ InCode(Q.currentFunc, Q.currentStep)
    /\ \A k \in 1..Len(Q.callStack) : InCode(Q.callStack[k][1], Q.callStack[k][2])
    /\ \A h \in 1..Len(Q.history_) :
          InCode(Q.history_[h].func, Q.history_[h].step + 1)
    /\ \A f \in Functions : \A k \in Indices(f) :
          OpAt(f, k).command = BREAK => OpAt(f, k).target \in Indices(f)

\* A false condition of an `if` that is never closed has sent execution back
\* to the first opcode.
C33_OpenIfJumpedBack ==
  /\ Compiled
  /\ undo.phase = "ran"
  /\ RanOp.command = IF_CMD /\ RanOp.target = -1
  /\ Q.currentStep = 0 /\ RanStep > 0
  /\ Q.history_ # <<>>


\* ------------------------------------------------------------------------
\* The run timer
\* ------------------------------------------------------------------------
\* C34: at most one stepRun_ timer callback is pending or active at any time,
\* for every sequence of run (start/stop toggle) clicks, stepInto clicks and
\* timer firings; toggling run repeatedly before a scheduled timer fires never
\* yields two concurrent run-loop chains.
C34_OneRunTimer == timers <= 1

\* Two stepRun_ timers are pending in run mode, and no call has thrown.
C34_TwoRunLoops == Compiled /\ timers = 2 /\ runmode_ /\ ~thrown


\* ------------------------------------------------------------------------
\* The arguments of a call of a script function
\* ------------------------------------------------------------------------
\* The call of a script function ran: the proc called and its parameters.
Callee == Q.funcs[RanOp.ref]

\* Every argument from i (from 1) of the call evaluated once, into its
\* parameter, in order.
RECURSIVE BoundOnce(_, _)
BoundOnce(w, i) ==
  IF i > Len(RanOp.args) THEN w
  ELSE LET Bound(r) == BoundOnce(r.w, i + 1)
           Param(id) == Bound(executeExpression(id.w, RanOp.args[i], id.s \o <<" ", "=", " ">>))
       IN Param(translateId(w, RanOp.ref, Callee.args[i]))

\* C35: a user-proc call evaluates each of its argument expressions exactly
\* once, so an argument with a side effect (for example an increment) changes
\* the caller's variable exactly once per call.
C35_ArgumentsEvaluatedOnce ==
  CallRan /\ Len(RanOp.args) <= Len(Callee.args) =>
    undo.post.window = BoundOnce(PreWorld, 1).window

\* The call `f x = x + 1` ran with x = 0 and left x = 2.
C35_IncrementedTwice ==
  /\ CallRan
  /\ Q.text_[RanOp.line] = L_fbump
  /\ MainCell(undo.pre.window, <<"x">>) = Num(0)
  /\ MainCell(undo.post.window, <<"x">>) = Num(2)

\* The cells of the parameters of the proc called.
ParameterCells == {Callee.name \o <<"_">> \o Callee.args[i] : i \in 1..Len(Callee.args)}

\* No argument of the call assigns.
PureArguments ==
  \A i \in 1..Len(RanOp.args) : \A k \in 1..Len(RanOp.args[i]) :
     RanOp.args[i][k].body # <<"=">>

\* C36: parameter binding writes only the callee's own parameter cells: a
\* user-proc call never changes the value of a variable that belongs to the
\* caller or to any ancestor function, even when such a variable has the same
\* name as one of the callee's parameters.
C36_BindingWritesOwnCells ==
  CallRan /\ PureArguments =>
    \A p \in DOMAIN undo.pre.window :
       p \notin ParameterCells => undo.post.window[p] = undo.pre.window[p]

\* The call `f 2` of `proc f a` ran where the caller holds a = 1, and the
\* caller's a is 2.
C36_CallerVariableOverwritten ==
  /\ CallRan
  /\ Q.text_[RanOp.line] = L_f2
  /\ Callee.args = <<<<"a">>>>
  /\ MainCell(undo.pre.window, <<"a">>) = Num(1)
  /\ MainCell(undo.post.window, <<"a">>) = Num(2)


\* ------------------------------------------------------------------------
\* stepBack and the host callback
\* ------------------------------------------------------------------------
\* The builtins the statement names.
NamedBuiltins == {n_Print, n_Display, n_Delay, n_Breakpoint, n_SetViewAngle, n_SetViewMode}

\* The opcode of the newest undo record.
LastOp == Q.funcs[Top(Q.history_).func].code[Top(Q.history_).step + 1]

\* stepBack goes back over a step that executed a builtin of the host.
OverHostBuiltin ==
  /\ Compiled
  /\ Q.history_ # <<>>
  /\ LastOp.command = "builtin"
  /\ getBuiltins[LastOp.ref].name \in NamedBuiltins

\* C37: stepBack never invokes a host callback: stepping back over a step
\* that executed Print, Display, Delay, Breakpoint, SetViewAngle or
\* SetViewMode produces no new console output, overlay change, delay change
\* or run-mode change.
C37_StepBackCallsNoCallback ==
  [][(OverHostBuiltin /\ \E rnd \in Outcomes : StepBack(rnd)) =>
        /\ output' = output
        /\ overlayHtml' = overlayHtml
        /\ runDelay_' = runDelay_
        /\ runmode_' = runmode_]_vars

\* A Print was stepped back and its line is on the console twice.
C37_PrintedAgain ==
  /\ undo.phase = "undone"
  /\ RanBuiltin = n_Print
  /\ Len(output) >= 2
  /\ output[Len(output)] = output[Len(output) - 1]
  /\ ~thrown


\* ------------------------------------------------------------------------
\* stepBack and the measured value
\* ------------------------------------------------------------------------
\* C38: after a runStep that executed Measure or MeasureBit followed by
\* stepBack, measured_value equals the value it had before that runStep.
C38_MeasuredValueRestored ==
  undo.phase = "undone" /\ RanBuiltin \in {n_Measure, n_MeasureBit} =>
    undo.mid.measuredValue = undo.pre.measuredValue

\* A measurement of a qubit on a register was stepped back and
\* measured_value is still the outcome of the measurement.
C38_OutcomeKept ==
  /\ undo.phase = "undone"
  /\ RanBuiltin = n_MeasureBit
  /\ undo.pre.simulator # <<>>
  /\ undo.post.measuredValue # undo.pre.measuredValue
  /\ undo.mid.measuredValue = undo.post.measuredValue


\* ------------------------------------------------------------------------
\* tokenize called with every line of a bounded length over the characters
\* the lexer tells apart
\* ------------------------------------------------------------------------
LexChars == {" ", "a", "1", "=", ";", "\"", "/"}

\* tokenize(line)
CallTokenize(line) ==
  /\ undo = NoUndo
  /\ undo' = Called("tokenize", <<line>>, tokenize(line))
  /\ PageUnchanged

NextTokens == \E n \in 0..MaxChars : \E line \in [1..n -> LexChars] : CallTokenize(line)

SpecTokens == Init /\ [][NextTokens]_vars

\* The bodies of the tokens, one after the other.
RECURSIVE Bodies_(_, _)
Bodies_(tokens, i) ==
  IF i > Len(tokens) THEN <<>> ELSE tokens[i].body \o Bodies_(tokens, i + 1)

\* The characters of the line from i that come before the first `//`, without
\* the whitespace outside string literals; inside tells that a string literal
\* is open at i.
RECURSIVE Kept(_, _, _)
Kept(line, i, inside) ==
  IF i > Len(line) THEN <<>>
  ELSE IF i < Len(line) /\ line[i] = "/" /\ line[i + 1] = "/" THEN <<>>
  ELSE IF line[i] = "\"" THEN <<line[i]>> \o Kept(line, i + 1, ~inside)
  ELSE IF line[i] = " " /\ ~inside THEN Kept(line, i + 1, inside)
  ELSE <<line[i]>> \o Kept(line, i + 1, inside)

\* C39: tokenizing loses no source character: for every input line,
\* concatenating the bodies of the tokens returned by tokenize, in order,
\* yields exactly the part of the line before the first `//` with all
\* whitespace outside string literals removed.
C39_TokensKeepCharacters ==
  undo.phase = "tokenize" => Bodies_(undo.result, 1) = Kept(undo.args[1], 1, FALSE)

\* A line with a blank inside a string literal and one outside was tokenized.
C39_BlankInsideString ==
  /\ undo.phase = "tokenize"
  /\ undo.args[1] = <<" ", "\"", " ", "\"">>
  /\ undo.result = <<Token(EXPRESSION, <<"\"", " ", "\"">>)>>


\* ------------------------------------------------------------------------
\* The block structure of procs
\* ------------------------------------------------------------------------
\* Line k (from 1) is an `endproc` met while __main__ is compiled.
StrayEndproc(text, k) ==
  /\ tokenize(trim(text[k])) = <<Token(ID, kw_endproc)>>
  /\ Len(OpenBlocks(text, k, 1, <<NoBlocks>>)) = 1

\* A proc is still open when the lines of the text are exhausted.
UnclosedProc(text) == Len(OpenBlocks(text, Len(text) + 1, 1, <<NoBlocks>>)) > 1

\* Line n was compiled: an opcode or an error names it, or it opens or closes
\* a proc, or it holds no token.
Accounted(n) ==
  \/ \E f \in Functions : \E j \in Indices(f) : OpAt(f, j).line = n
  \/ \E e \in 1..Len(Q.errors) : Q.errors[e].arg = n
  \/ TokensOf(n) = <<>>
  \/ TokensOf(n)[1] \in {Token(ID, kw_proc), Token(ID, kw_endproc)}

\* C40: block structure of procs is checked: an `endproc` at top level with
\* no open `proc`, and a `proc` with no closing `endproc` before the end of
\* the script, each add a compile error, and no source line after a stray
\* top-level `endproc` is silently left out of __main__.
C40_ProcBlocksChecked ==
  Compiled =>
    /\ \A k \in 1..Len(Q.text_) :
          StrayEndproc(Q.text_, k) => \E e \in 1..Len(Q.errors) : Q.errors[e].arg = k
    /\ UnclosedProc(Q.text_) => Q.errors # <<>>
    /\ \A n \in 1..Len(Q.text_) : Accounted(n)

\* A script with an `endproc` at top level followed by a gate compiled without
\* an error and without an opcode.
C40_LinesAfterEndprocDropped ==
  /\ Compiled
  /\ Len(Q.text_) >= 2
  /\ StrayEndproc(Q.text_, 1)
  /\ Q.text_[2] = L_Hadamard0
  /\ Q.errors = <<>>
  /\ Q.funcs[Q.main].code = <<>>

====
